---- MODULE Spec2Model ----
(***************************************************************************)
(* Section detection and boundary resolution of split_pdf_by_chapters.py:  *)
(* DocumentSplitter.split_pdf builds the page-tagged text from the         *)
(* extractor's pages, SectionDetector.detect_sections scans it, the TOC    *)
(* filter, the reference filter and the deduplicator reduce the candidate  *)
(* list, and the writer emits front matter, section files and the          *)
(* manifest.                                                               *)
(*                                                                         *)
(* Strings are modelled at the granularity the code looks at them: a line  *)
(* is a record of what the regular expressions and the string tests read   *)
(* (its class, its page number, its heading keyword and ordinal token, its *)
(* words, its stripped length, whether it is upper case); a word is a      *)
(* record of its lower-case stem, whether it carries upper-case letters,   *)
(* its trailing punctuation and the stem's length in characters.           *)
(* Line indices are 0-based as in the code: line i is lines[i + 1].        *)
(***************************************************************************)
EXTENDS Integers, Sequences, FiniteSets, TLC

\* ------------------------------------------------------------------------
\* Bounds of the model
\* ------------------------------------------------------------------------

\* content lines the extractor returns over all pages of one document
MaxContent == 3

\* pages of a document (result.total_pages); text sits on ContentPages only
TotalPages == 62

\* the number of heading lines of a document of the table-of-contents
\* specification
MaxTocContent == 5

\* the number of words of the longest title of the titles specification
MaxTitleLen == 9

\* the number of lines of the longest text of the page-marker specification
MaxPageText == 6

\* the number of lines of the longest text of the appendix specification
MaxAppendixLines == 2

\* the number of lines of a text of the standalone-marker specification
MaxStandaloneLines == 3

\* the number of heading lines on the page of the stage-order specification
MaxStageContent == 3

\* the number of lines of a text of the title-capture specification
MaxCaptureLines == 5

\* the look-ahead specification: the number of empty lines behind the
\* heading and the number of lines of the run behind them
MaxGap == 16

MaxRun == 17

\* the number of lines of a text of the target-name specification
MaxNameLines == 3

\* the scenario specification: the number of front-matter lines, the page
\* on which "CHAPTER 2" stands and the last page of the text
MaxFrontLines == 3

ScenarioSecondPage == 10

ScenarioLastPage == 20

\* ------------------------------------------------------------------------
\* Program constants
\* ------------------------------------------------------------------------

NON_CONTIGUOUS_PAGE_THRESHOLD == 30

TOC_PAGE_SECTION_THRESHOLD == 3

MAX_TITLE_WORDS == 8

\* title_words[:6]
REFERENCE_WORD_WINDOW == 6

\* SectionDetector.__init__(look_ahead_lines = 15)
look_ahead_lines == 15

\* '=' * 80 of the separator lines split_pdf writes around each page marker
SEPARATOR_WIDTH == 80

\* name.strip('_')[:50]
FILENAME_TITLE_CHARS == 50

\* Optional[int] None
None == -1

REFERENCE_INDICATOR_WORDS ==
    {"includes", "provides", "contains", "describes", "explains",
     "covers", "discusses", "presents", "features", "offers",
     "summarizes", "details", "outlines", "introduces", "explores"}

\* ------------------------------------------------------------------------
\* Words
\* ------------------------------------------------------------------------

\* a word of n characters of stem, written with or without capitals,
\* followed by the punctuation tail
Word(stem, up, tail, n) == [stem |-> stem, up |-> up, tail |-> tail, n |-> n]

\* str.lower() of one word
LowerWord(w) == [w EXCEPT !.up = FALSE]

\* word.rstrip('.,;:'): the trailing run of these four characters goes,
\* anything else ('!', ')') stops the strip
RStripTail(tail) ==
    CASE tail \in {"", ".", ",", ";", ":", ".:", ";:"} -> ""
      [] tail = "!."  -> "!"
      [] tail = ")."  -> ")"
      [] OTHER        -> tail

\* word.rstrip('.,;:') in self.REFERENCE_INDICATOR_WORDS, for a word of the
\* lower-cased title
InReferenceWords(w) ==
    /\ ~w.up
    /\ RStripTail(w.tail) = ""
    /\ w.stem \in REFERENCE_INDICATOR_WORDS

\* ------------------------------------------------------------------------
\* Ordinal tokens (the first capture group of a heading pattern)
\* ------------------------------------------------------------------------

\* a token of digits, with int(token)
DigitsTok(s, v) ==
    [s |-> s, lower |-> s, upper |-> s, digits |-> TRUE, alpha |-> FALSE,
     value |-> v, len |-> IF v < 10 /\ s # "01" THEN 1 ELSE 2]

\* a token of letters, with its str.lower() and str.upper()
AlphaTok(s, lower, upper, n) ==
    [s |-> s, lower |-> lower, upper |-> upper, digits |-> FALSE,
     alpha |-> TRUE, value |-> None, len |-> n]

WORD_TO_NUM ==
    [one |-> 1, two |-> 2, three |-> 3, four |-> 4, five |-> 5, six |-> 6,
     seven |-> 7, eight |-> 8, nine |-> 9, ten |-> 10, eleven |-> 11,
     twelve |-> 12]

ROMAN_TO_NUM ==
    [I |-> 1, II |-> 2, III |-> 3, IV |-> 4, V |-> 5, VI |-> 6, VII |-> 7,
     VIII |-> 8, IX |-> 9, X |-> 10]

\* 'A' .. 'Z' in the order of ord()
UPPERCASE == <<"A", "B", "C", "D", "E", "F", "G", "H", "I", "J", "K", "L", "M",
               "N", "O", "P", "Q", "R", "S", "T", "U", "V", "W", "X", "Y", "Z">>

\* ord(value.upper()) - ord('A') + 1
LetterPosition(c) == CHOOSE i \in 1..Len(UPPERCASE) : UPPERCASE[i] = c

\* the upper-cased strings of the model that the class [IVX]+ accepts
IVX_STRINGS ==
    {"I", "II", "III", "IV", "V", "VI", "VII", "VIII", "IX", "X", "XX", "XV",
     "XI", "XII"}

_convert_to_number(value) ==
    IF value.digits THEN value.value
    ELSE IF value.lower \in DOMAIN WORD_TO_NUM THEN WORD_TO_NUM[value.lower]
    ELSE IF value.upper \in DOMAIN ROMAN_TO_NUM THEN ROMAN_TO_NUM[value.upper]
    ELSE IF value.len = 1 /\ value.alpha THEN LetterPosition(value.upper)
    ELSE None

\* ------------------------------------------------------------------------
\* Lines
\* ------------------------------------------------------------------------

NoTok == AlphaTok("", "", "", 0)

\* the empty line (after strip)
BlankLine ==
    [t |-> "blank", n |-> 0, kw |-> "", tok |-> NoTok, colon |-> FALSE,
     words |-> <<>>, len |-> 0, upper |-> FALSE]

\* '=' * width
SeparatorLine(width) ==
    [t |-> "sep", n |-> width, kw |-> "", tok |-> NoTok, colon |-> FALSE,
     words |-> <<>>, len |-> width, upper |-> FALSE]

\* "PAGE <n>"
PageLine(n) ==
    [t |-> "page", n |-> n, kw |-> "", tok |-> NoTok, colon |-> FALSE,
     words |-> <<>>, len |-> IF n < 10 THEN 6 ELSE 7, upper |-> TRUE]

\* "<KW> <tok>" or "<KW> <tok>: <words>", n characters long
HeadLine(kw, tok, colon, words, n, upper) ==
    [t |-> "head", n |-> 0, kw |-> kw, tok |-> tok, colon |-> colon,
     words |-> words, len |-> n, upper |-> upper]

\* a line of running text
TextLine(words, n, upper) ==
    [t |-> "text", n |-> 0, kw |-> "", tok |-> NoTok, colon |-> FALSE,
     words |-> words, len |-> n, upper |-> upper]

\* a line that is nothing but a standalone marker: "INTRODUCTION",
\* "GLOSSARY", "GLOSSARY AND INDEX", "GLOSSARY & INDEX" or "INDEX" in any
\* case; kw names the marker it starts with
StandaloneLine(kw, words, n, upper) ==
    [t |-> "text", n |-> 0, kw |-> kw, tok |-> NoTok, colon |-> FALSE,
     words |-> words, len |-> n, upper |-> upper]

\* ------------------------------------------------------------------------
\* State of the detector
\* ------------------------------------------------------------------------

VARIABLES
    strict_standalone   \* self.strict_standalone, set by SectionDetector.__init__

\* ------------------------------------------------------------------------
\* SectionDetector: heading patterns
\* ------------------------------------------------------------------------

\* (?::\s*(.*))?$ : the ordinal token ends the line or a colon follows it
TitleGroupMatches(line) == line.colon \/ line.words = <<>>

\* CHAPTER_PATTERNS, in the order of the list
CHAPTER_PATTERNS ==
    <<[kw |-> "CHAPTER",  section_type |-> "chapter"],
      [kw |-> "CHAPTER",  section_type |-> "chapter"],
      [kw |-> "PART",     section_type |-> "part"],
      [kw |-> "SECTION",  section_type |-> "section"],
      [kw |-> "APPENDIX", section_type |-> "appendix"]>>

\* the first capture group of pattern i accepts the token
OrdinalGroupMatches(i, tok) ==
    CASE i = 1 -> tok.digits
      [] i = 2 -> tok.lower \in DOMAIN WORD_TO_NUM
      [] i = 3 -> tok.digits \/ tok.upper \in IVX_STRINGS
      [] i = 4 -> tok.digits
      [] i = 5 -> (tok.len = 1 /\ tok.alpha) \/ tok.digits

\* pattern.match(stripped) for CHAPTER_PATTERNS[i]
PatternMatches(i, line) ==
    /\ line.t = "head"
    /\ line.kw = CHAPTER_PATTERNS[i].kw
    /\ OrdinalGroupMatches(i, line.tok)
    /\ TitleGroupMatches(line)

\* any(pattern.match(line) for pattern, _ in self.CHAPTER_PATTERNS)
MatchesAnyChapterPattern(line) ==
    \E i \in 1..Len(CHAPTER_PATTERNS) : PatternMatches(i, line)

\* STANDALONE_PATTERNS, in the order of the list
STANDALONE_PATTERNS ==
    <<[kw |-> "INTRODUCTION", section_type |-> "introduction"],
      [kw |-> "GLOSSARY",     section_type |-> "glossary"],
      [kw |-> "INDEX",        section_type |-> "index"]>>

\* pattern.match(stripped) for STANDALONE_PATTERNS[i]
StandalonePatternMatches(i, line) ==
    line.t = "text" /\ line.kw = STANDALONE_PATTERNS[i].kw

\* both lists, whatever the flag
patterns_to_check_Always == CHAPTER_PATTERNS \o STANDALONE_PATTERNS

\* list(self.CHAPTER_PATTERNS), extended by STANDALONE_PATTERNS
\* if self.strict_standalone
patterns_to_check ==
    CHAPTER_PATTERNS \o (IF strict_standalone THEN STANDALONE_PATTERNS ELSE <<>>)

\* pattern.match(stripped) for patterns_to_check[i]
CheckedPatternMatches(i, line) ==
    IF i <= Len(CHAPTER_PATTERNS) THEN PatternMatches(i, line)
    ELSE StandalonePatternMatches(i - Len(CHAPTER_PATTERNS), line)

\* the first pattern of patterns_to_check that matches, 0 when none does
FirstMatchingPattern(line) ==
    IF \E i \in 1..Len(patterns_to_check) : CheckedPatternMatches(i, line)
    THEN CHOOSE i \in 1..Len(patterns_to_check) :
            /\ CheckedPatternMatches(i, line)
            /\ \A j \in 1..(i - 1) : ~CheckedPatternMatches(j, line)
    ELSE 0

\* re.match(r'^(?:PAGE\s+\d+|={10,})$', stripped)
_is_page_marker(line) ==
    \/ line.t = "page"
    \/ line.t = "sep" /\ line.n >= 10

\* line.startswith('=')
StartsWithEquals(line) == line.t = "sep"

\* extract_page_number: the number of a "PAGE <digits>" line, None otherwise
extract_page_number(line) == IF line.t = "page" THEN line.n ELSE None

\* ------------------------------------------------------------------------
\* SectionDetector._extract_title_from_lines
\* ------------------------------------------------------------------------

\* len(line) > 1
LooksLikeTitleText_AnyLength(line) == line.len > 1

\* len(line) < 150
LooksLikeTitleText_OneChar(line) == line.len < 150

\* len(line) > 1 and len(line) < 150
LooksLikeTitleText(line) == line.len > 1 /\ line.len < 150

\* the all-uppercase early stop: the line is upper case and longer than 10
\* and the next line is empty or no short upper-case continuation
UppercaseTitleComplete(lines, idx) ==
    /\ lines[idx + 1].upper
    /\ lines[idx + 1].len > 10
    /\ idx + 1 < Len(lines)
    /\ LET next_line == lines[idx + 2]
       IN  next_line.t = "blank" \/ ~(next_line.upper /\ next_line.len < 100)

\* the loop that looks at the line behind the heading and at no other
TitleLoop_FirstLineOnly(lines, start_idx, offset, title_parts, found_title_start) ==
    IF start_idx + 1 < Len(lines)
       /\ lines[start_idx + 2].t = "text"
       /\ LooksLikeTitleText(lines[start_idx + 2])
    THEN <<start_idx + 1>> ELSE <<>>

RECURSIVE TitleLoop(_, _, _, _, _)
\* the body of the for loop at `offset`, with title_parts and
\* found_title_start as they stand; the result is title_parts at the end
TitleLoop(lines, start_idx, offset, title_parts, found_title_start) ==
    LET idx == start_idx + offset
        line == lines[idx + 1]
        next == offset + 1
    IN  IF offset > look_ahead_lines \/ idx >= Len(lines) THEN title_parts
        ELSE IF line.t = "blank" THEN
            IF found_title_start THEN title_parts
            ELSE TitleLoop(lines, start_idx, next, title_parts, found_title_start)
        ELSE IF _is_page_marker(line) \/ StartsWithEquals(line) THEN
            IF found_title_start THEN title_parts
            ELSE TitleLoop(lines, start_idx, next, title_parts, found_title_start)
        ELSE IF MatchesAnyChapterPattern(line) THEN title_parts
        ELSE IF LooksLikeTitleText(line) THEN
            IF UppercaseTitleComplete(lines, idx)
            THEN Append(title_parts, idx)
            ELSE TitleLoop(lines, start_idx, next, Append(title_parts, idx), TRUE)
        ELSE IF found_title_start THEN title_parts
        ELSE TitleLoop(lines, start_idx, next, title_parts, found_title_start)

\* a heading keyword as a word of running text
KeywordWord(kw) ==
    CASE kw = "CHAPTER"  -> Word("chapter", TRUE, "", 7)
      [] kw = "PART"     -> Word("part", TRUE, "", 4)
      [] kw = "SECTION"  -> Word("section", TRUE, "", 7)
      [] kw = "APPENDIX" -> Word("appendix", TRUE, "", 8)

\* the words of a stripped line as str.split() returns them
LineWords(line) ==
    IF line.t = "head"
    THEN <<KeywordWord(line.kw),
           Word(line.tok.s, line.tok.s # line.tok.lower,
                IF line.colon THEN ":" ELSE "", line.tok.len)>> \o line.words
    ELSE line.words

RECURSIVE JoinLines(_, _)
\* ' '.join(title_parts), as the sequence of its words
JoinLines(lines, idxs) ==
    IF idxs = <<>> THEN <<>>
    ELSE LineWords(lines[Head(idxs) + 1]) \o JoinLines(lines, Tail(idxs))

\* the line indices whose text makes up the title
TitleLineIndices(lines, start_idx) == TitleLoop(lines, start_idx, 1, <<>>, FALSE)

_extract_title_from_lines(lines, start_idx) ==
    JoinLines(lines, TitleLineIndices(lines, start_idx))

\* ------------------------------------------------------------------------
\* SectionDetector._generate_filename
\* ------------------------------------------------------------------------

\* A file name is the sequence of the pieces that '_' joins, each with the
\* number of its characters that are kept; ".txt" is left out.
Piece(s, k) == [s |-> s, k |-> k]

DIGITS == <<"0", "1", "2", "3", "4", "5", "6", "7", "8", "9">>

\* str(number) for 0 <= number < 100
Str(number) ==
    IF number < 10 THEN DIGITS[number + 1]
    ELSE DIGITS[(number \div 10) + 1] \o DIGITS[(number % 10) + 1]

\* f"{number:02d}" for 0 <= number < 100
Format02d(number) ==
    IF number < 10 THEN "0" \o DIGITS[number + 1] ELSE Str(number)

\* the words that survive lower(), the replacement of [\s\-&]+ by '_', the
\* removal of [^a-z0-9_] and the collapse of '_': the non-empty stems
SanitizedStems(words) == SelectSeq(words, LAMBDA w : w.n > 0)

RECURSIVE CutPieces(_, _)
\* name[:budget] of the stems joined by '_'
CutPieces(stems, budget) ==
    IF stems = <<>> \/ budget <= 0 THEN <<>>
    ELSE LET w == Head(stems)
         IN  IF w.n > budget THEN <<Piece(w.stem, budget)>>
             ELSE IF Len(stems) = 1 THEN <<Piece(w.stem, w.n)>>
             ELSE IF budget = w.n THEN <<Piece(w.stem, w.n)>>
             ELSE IF budget = w.n + 1 THEN <<Piece(w.stem, w.n), Piece("", 0)>>
             ELSE <<Piece(w.stem, w.n)>> \o CutPieces(Tail(stems), budget - w.n - 1)

_sanitize_for_filename(name) == CutPieces(SanitizedStems(name), FILENAME_TITLE_CHARS)

\* `if number:` of an Optional[int]: None and 0 are both false
Truthy(number) == number # None /\ number # 0

FilenamePrefix(section_type, number) ==
    CASE section_type = "chapter" ->
            <<Piece(IF Truthy(number) THEN Format02d(number) ELSE "00", 2)>>
      [] section_type = "part" ->
            IF Truthy(number) THEN <<Piece("part", 4), Piece(Format02d(number), 2)>>
            ELSE <<Piece("part", 4)>>
      [] section_type = "appendix" ->
            IF Truthy(number)
            THEN <<Piece("appendix", 8), Piece(Str(number), IF number < 10 THEN 1 ELSE 2)>>
            ELSE <<Piece("appendix", 8)>>
      [] section_type = "section" ->
            IF Truthy(number) THEN <<Piece("section", 7), Piece(Format02d(number), 2)>>
            ELSE <<Piece("section", 7)>>
      [] section_type = "introduction" -> <<Piece("introduction", 12)>>
      [] section_type = "glossary" -> <<Piece("glossary", 8)>>
      [] OTHER -> <<Piece("index", 5)>>

_generate_filename(section_type, number, title) ==
    LET safe_title == _sanitize_for_filename(title)
        type_part ==
            IF section_type = "chapter"
            THEN <<Piece("chapter", 7)>>
                 \o (IF Truthy(number)
                     THEN <<Piece(Str(number), IF number < 10 THEN 1 ELSE 2)>>
                     ELSE <<>>)
            ELSE <<>>
    IN  FilenamePrefix(section_type, number) \o type_part \o safe_title

\* ------------------------------------------------------------------------
\* SectionDetector.detect_sections
\* ------------------------------------------------------------------------

Section(section_type, number, title, start_line, end_line, start_page, end_page, filename) ==
    [section_type |-> section_type, number |-> number, title |-> title,
     start_line |-> start_line, end_line |-> end_line,
     start_page |-> start_page, end_page |-> end_page,
     filename |-> filename, subsections |-> <<>>]

\* the candidate of a line that pattern i matches
Candidate(lines, line_num, i, page) ==
    LET line == lines[line_num + 1]
        section_type == patterns_to_check[i].section_type
        number == _convert_to_number(line.tok)
        inline_title == IF line.colon THEN line.words ELSE <<>>
        title == IF inline_title # <<>> THEN inline_title
                 ELSE _extract_title_from_lines(lines, line_num)
    IN  Section(section_type, number, title, line_num, -1, page, -1,
                _generate_filename(section_type, number, title))

\* `if page_num:` : a marker sets the page unless its number is 0
MarkerSetsPage(line) ==
    extract_page_number(line) # None /\ extract_page_number(line) # 0

\* The for loop over enumerate(lines) is modelled by what it leaves behind:
\* current_page at a line is the number of the last marker before it that
\* set the page (1 when there is none), and one candidate is appended for
\* every line that is no such marker, is not empty and matches a pattern.

\* a line whose ordinal does not resolve is passed over
IsCandidateLine_ResolvedOnly(line) ==
    /\ ~MarkerSetsPage(line)
    /\ line.t # "blank"
    /\ FirstMatchingPattern(line) # 0
    /\ _convert_to_number(line.tok) # None

\* the line reaches the pattern loop and a pattern matches it
IsCandidateLine(line) ==
    /\ ~MarkerSetsPage(line)
    /\ line.t # "blank"
    /\ FirstMatchingPattern(line) # 0

\* current_page when the loop reaches line_num
current_page_at(lines, line_num) ==
    LET markers == {j \in 0..(line_num - 1) : MarkerSetsPage(lines[j + 1])}
        last == CHOOSE j \in markers : \A k \in markers : k <= j
    IN  IF markers = {} THEN 1 ELSE extract_page_number(lines[last + 1])

RECURSIVE Ascending(_)
\* the numbers of a finite set in ascending order
Ascending(S) ==
    IF S = {} THEN <<>>
    ELSE LET least == CHOOSE x \in S : \A y \in S : x <= y
         IN  <<least>> \o Ascending(S \ {least})

\* the list `sections` when the loop ends
ScannedSections(lines) ==
    LET found == Ascending({n \in 0..(Len(lines) - 1) :
                                IsCandidateLine(lines[n + 1])})
    IN  [k \in 1..Len(found) |->
            Candidate(lines, found[k], FirstMatchingPattern(lines[found[k] + 1]),
                      current_page_at(lines, found[k]))]

\* the loop without its else branch: the last section keeps its placeholders
_set_section_boundaries_NotLast(sections, lines, last_page) ==
    [i \in 1..Len(sections) |->
        IF i < Len(sections)
        THEN [sections[i] EXCEPT !.end_line = sections[i + 1].start_line - 1,
                                 !.end_page = sections[i + 1].start_page - 1]
        ELSE sections[i]]

_set_section_boundaries(sections, lines, last_page) ==
    [i \in 1..Len(sections) |->
        IF i < Len(sections)
        THEN [sections[i] EXCEPT !.end_line = sections[i + 1].start_line - 1,
                                 !.end_page = sections[i + 1].start_page - 1]
        ELSE [sections[i] EXCEPT !.end_line = Len(lines) - 1,
                                 !.end_page = last_page]]

\* current_page when the scan ends
LastTrackedPage(lines) == current_page_at(lines, Len(lines))

detect_sections(lines) ==
    _set_section_boundaries(ScannedSections(lines), lines, LastTrackedPage(lines))

\* ------------------------------------------------------------------------
\* DocumentSplitter._filter_toc_pages
\* ------------------------------------------------------------------------

\* set(s.number for s in page_sections): the unresolved ordinal is counted
unique_numbers_WithNone(sections, page) ==
    {sections[i].number : i \in {j \in 1..Len(sections) :
        sections[j].start_page = page}}

\* set(s.number for s in page_sections if s.number is not None)
unique_numbers(sections, page) ==
    {sections[i].number : i \in {j \in 1..Len(sections) :
        sections[j].start_page = page /\ sections[j].number # None}}

IsTocPage(sections, page) ==
    Cardinality(unique_numbers(sections, page)) >= TOC_PAGE_SECTION_THRESHOLD

toc_pages(sections) ==
    {page \in {sections[i].start_page : i \in 1..Len(sections)} :
        IsTocPage(sections, page)}

_filter_toc_pages(sections) ==
    SelectSeq(sections, LAMBDA s : s.start_page \notin toc_pages(sections))

RECURSIVE TocPagesInOrder(_, _)
\* toc_pages as the loop over sections_per_page.items() fills it when it
\* visits the pages in the order pages
TocPagesInOrder(sections, pages) ==
    IF pages = <<>> THEN {}
    ELSE TocPagesInOrder(sections, SubSeq(pages, 1, Len(pages) - 1))
         \cup (IF IsTocPage(sections, pages[Len(pages)])
               THEN {pages[Len(pages)]} ELSE {})

\* the filter for the pages visited in the order pages
FilterTocInOrder(sections, pages) ==
    SelectSeq(sections,
              LAMBDA s : s.start_page \notin TocPagesInOrder(sections, pages))

\* ------------------------------------------------------------------------
\* DocumentSplitter._filter_reference_sections
\* ------------------------------------------------------------------------

\* title.lower().split()
title_words(title) == [i \in 1..Len(title) |-> LowerWord(title[i])]

\* the slice seq[:n]
Prefix(seq, n) == SubSeq(seq, 1, IF Len(seq) < n THEN Len(seq) ELSE n)

\* any(... for word in title_words): no window
has_reference_word_AnyPosition(title) ==
    \E i \in 1..Len(title_words(title)) :
        InReferenceWords(title_words(title)[i])

\* any(word.rstrip('.,;:') in self.REFERENCE_INDICATOR_WORDS
\*     for word in title_words[:6])
has_reference_word(title) ==
    \E i \in 1..Len(Prefix(title_words(title), REFERENCE_WORD_WINDOW)) :
        InReferenceWords(title_words(title)[i])

NeedsTruncation(title) == Len(title_words(title)) > MAX_TITLE_WORDS

\* ' '.join(section.title.split()[:MAX_TITLE_WORDS])
TruncatedTitle(title) == Prefix(title, MAX_TITLE_WORDS)

\* the title is cut and the file name is left as it was
TruncateSection_StaleName(section) ==
    IF NeedsTruncation(section.title)
    THEN [section EXCEPT !.title = TruncatedTitle(section.title)]
    ELSE section

\* the section as the loop body leaves it when it is kept
TruncateSection(section) ==
    IF NeedsTruncation(section.title)
    THEN [section EXCEPT
            !.title = TruncatedTitle(section.title),
            !.filename = _generate_filename(section.section_type, section.number,
                                            TruncatedTitle(section.title))]
    ELSE section

RECURSIVE _filter_reference_sections(_)
_filter_reference_sections(sections) ==
    IF sections = <<>> THEN <<>>
    ELSE IF has_reference_word(Head(sections).title)
    THEN _filter_reference_sections(Tail(sections))
    ELSE <<TruncateSection(Head(sections))>>
         \o _filter_reference_sections(Tail(sections))

\* ------------------------------------------------------------------------
\* DocumentSplitter._deduplicate_sections
\* ------------------------------------------------------------------------

\* the sort keys: lambda s: s.start_page and lambda s: s.start_line
KeyOf(s, key) == IF key = "start_page" THEN s.start_page ELSE s.start_line

RECURSIVE InsertByKey(_, _, _)
\* x put into the sorted seq behind every element whose key is <= its own
InsertByKey(seq, x, key) ==
    IF seq = <<>> THEN <<x>>
    ELSE IF KeyOf(x, key) < KeyOf(Head(seq), key) THEN <<x>> \o seq
    ELSE <<Head(seq)>> \o InsertByKey(Tail(seq), x, key)

\* the list left in the order it has
SortByKey_Unsorted(seq, key) == seq

RECURSIVE SortByKey(_, _)
\* list.sort(key = key): stable, ascending
SortByKey(seq, key) ==
    IF seq = <<>> THEN <<>>
    ELSE InsertByKey(SortByKey(SubSeq(seq, 1, Len(seq) - 1), key),
                     seq[Len(seq)], key)

\* the line span that max() compares
line_span(s) == s.end_line - s.start_line

\* page_gap >= NON_CONTIGUOUS_PAGE_THRESHOLD
ExceedsThreshold_Inclusive(page_gap) == page_gap >= NON_CONTIGUOUS_PAGE_THRESHOLD

\* page_gap > NON_CONTIGUOUS_PAGE_THRESHOLD
ExceedsThreshold(page_gap) == page_gap > NON_CONTIGUOUS_PAGE_THRESHOLD

\* the first loop: some consecutive pair of occurrences is far apart
has_non_contiguous(occurrences) ==
    \E i \in 1..(Len(occurrences) - 1) :
        ExceedsThreshold(occurrences[i + 1].start_page - occurrences[i].start_page)

\* the second loop: the occurrences recorded as additional ranges
additional_ranges(occurrences) ==
    SelectSeq(Tail(occurrences),
              LAMBDA secondary :
                ExceedsThreshold(secondary.start_page - occurrences[1].start_page))

\* the word appended by f"{primary.title} (continued)"
CONTINUED == Word("(continued)", FALSE, "", 11)

\* the subsection built from one additional range
Continuation(primary, range_info) ==
    Section(primary.section_type, primary.number,
            Append(primary.title, CONTINUED),
            range_info.start_line, range_info.end_line,
            range_info.start_page, range_info.end_page, <<>>)

\* occurrences[0] with the subsections appended and its own title annotated
MergedPrimary_Retitled(occurrences) ==
    LET primary == occurrences[1]
        ranges == additional_ranges(occurrences)
    IN  [primary EXCEPT
            !.title = Append(primary.title, CONTINUED),
            !.subsections =
                primary.subsections
                \o [k \in 1..Len(ranges) |-> Continuation(primary, ranges[k])]]

\* occurrences[0] with the subsections appended
MergedPrimary(occurrences) ==
    LET primary == occurrences[1]
        ranges == additional_ranges(occurrences)
    IN  [primary EXCEPT !.subsections =
            primary.subsections
            \o [k \in 1..Len(ranges) |-> Continuation(primary, ranges[k])]]

\* max(occurrences, key = line span): the first occurrence of maximal span
Largest(occurrences) ==
    LET i == CHOOSE k \in 1..Len(occurrences) :
                /\ \A j \in 1..Len(occurrences) :
                        line_span(occurrences[j]) <= line_span(occurrences[k])
                /\ \A j \in 1..(k - 1) :
                        line_span(occurrences[j]) < line_span(occurrences[k])
    IN  occurrences[i]

\* every occurrence is returned
_merge_or_deduplicate_occurrences_KeepAll(occurrences) == occurrences

_merge_or_deduplicate_occurrences(occurrences) ==
    IF Len(occurrences) < 2 THEN occurrences
    ELSE IF has_non_contiguous(occurrences) THEN <<MergedPrimary(occurrences)>>
    ELSE <<Largest(occurrences)>>

RECURSIVE GroupKeys(_, _)
\* the keys of by_filename in insertion order
GroupKeys(sections, seen) ==
    IF sections = <<>> THEN seen
    ELSE IF \E k \in 1..Len(seen) : seen[k] = Head(sections).filename
    THEN GroupKeys(Tail(sections), seen)
    ELSE GroupKeys(Tail(sections), Append(seen, Head(sections).filename))

\* by_filename[filename]
by_filename(sections, filename) ==
    SelectSeq(sections, LAMBDA s : s.filename = filename)

\* one pass of "for filename, occurrences in by_filename.items()"
ProcessGroup(occurrences) ==
    IF Len(occurrences) = 1 THEN occurrences
    ELSE _merge_or_deduplicate_occurrences(SortByKey(occurrences, "start_page"))

RECURSIVE ProcessGroups(_, _)
ProcessGroups(sections, keys) ==
    IF keys = <<>> THEN <<>>
    ELSE ProcessGroup(by_filename(sections, Head(keys)))
         \o ProcessGroups(sections, Tail(keys))

\* the sorted list as the groups left it
RecalculateBoundaries_Skipped(deduplicated) == deduplicated

\* "Recalculate boundaries after deduplication": every section but the last
RecalculateBoundaries(deduplicated) ==
    [i \in 1..Len(deduplicated) |->
        IF i < Len(deduplicated)
        THEN [deduplicated[i] EXCEPT
                !.end_line = deduplicated[i + 1].start_line - 1,
                !.end_page = deduplicated[i + 1].start_page - 1]
        ELSE deduplicated[i]]

\* the groups processed in the order keys, then the sort by start_line and
\* the recalculation
DeduplicateInOrder(sections, keys) ==
    IF sections = <<>> THEN sections
    ELSE RecalculateBoundaries(
            SortByKey(ProcessGroups(sections, keys), "start_line"))

\* by_filename.items() iterates in insertion order
_deduplicate_sections(sections) ==
    DeduplicateInOrder(sections, GroupKeys(sections, <<>>))

\* ------------------------------------------------------------------------
\* Section.to_dict
\* ------------------------------------------------------------------------

\* f"{start_page}-{end_page}"
PageRange(s) == [start_page |-> s.start_page, end_page |-> s.end_page]

\* [f"{self.start_page}-{self.end_page}"] + the ranges of the subsections
page_ranges(section) ==
    <<PageRange(section)>>
    \o [k \in 1..Len(section.subsections) |-> PageRange(section.subsections[k])]

\* the dictionary of one section; all_page_ranges is <<>> when the key is absent
to_dict(section) ==
    [type |-> section.section_type, number |-> section.number,
     title |-> section.title,
     start_line |-> section.start_line, end_line |-> section.end_line,
     start_page |-> section.start_page, end_page |-> section.end_page,
     filename |-> section.filename,
     subsections |-> section.subsections,
     all_page_ranges |-> IF section.subsections # <<>>
                         THEN page_ranges(section) ELSE <<>>]

\* ------------------------------------------------------------------------
\* DocumentSplitter.split_pdf: the text built from the extractor's pages
\* ------------------------------------------------------------------------

\* page.text of page p as its lines: the content lines tagged p, in order
PageText(content, p) ==
    LET own == SelectSeq(content, LAMBDA c : c.page = p)
    IN  [k \in 1..Len(own) |-> own[k].line]

\* what one page adds to text_content.split('\n'): the line ended by the
\* leading newline, separator, marker, separator, empty line, the text
PageBlock(content, p) ==
    <<BlankLine, SeparatorLine(SEPARATOR_WIDTH), PageLine(p),
      SeparatorLine(SEPARATOR_WIDTH), BlankLine>> \o PageText(content, p)

RECURSIVE PageBlocks(_, _, _)
\* the blocks of the pages first .. last in order; the range is halved to
\* keep the evaluation shallow
PageBlocks(content, first, last) ==
    IF first > last THEN <<>>
    ELSE IF first = last THEN PageBlock(content, first)
    ELSE LET middle == (first + last) \div 2
         IN  PageBlocks(content, first, middle)
             \o PageBlocks(content, middle + 1, last)

\* text_content.split('\n'): the blocks and the empty string behind the
\* last newline; the empty list stands for the empty text_content
BuildLines(res) ==
    IF res.total_pages = 0 THEN <<>>
    ELSE Append(PageBlocks(res.content, 1, res.total_pages), BlankLine)

\* ------------------------------------------------------------------------
\* Input domains
\* ------------------------------------------------------------------------

W_intro      == Word("intro", TRUE, "", 5)
W_skills     == Word("skills", TRUE, "", 6)
W_includes   == Word("includes", FALSE, "", 8)
W_several    == Word("several", FALSE, "", 7)
W_subsystems == Word("subsystems", FALSE, "", 10)
W_overview   == Word("overview", TRUE, "", 8)

\* "CHAPTER 1: Intro"
LineChapter1 ==
    HeadLine("CHAPTER", DigitsTok("1", 1), TRUE, <<W_intro>>, 16, FALSE)

\* "PART 2"
LinePart2 == HeadLine("PART", DigitsTok("2", 2), FALSE, <<>>, 6, TRUE)

\* "Chapter 4: Skills includes several subsystems"
LineChapter4Reference ==
    HeadLine("CHAPTER", DigitsTok("4", 4), TRUE,
             <<W_skills, W_includes, W_several, W_subsystems>>, 45, FALSE)

\* "Overview"
LineOverview == TextLine(<<W_overview>>, 8, FALSE)

\* the lines a page of the main specification may carry
ContentLines == {LineChapter1, LinePart2, LineChapter4Reference, LineOverview}

\* the pages that carry text: the first, one exactly the threshold later and
\* one more than the threshold after that
ContentPages ==
    {p \in {1, 1 + NON_CONTIGUOUS_PAGE_THRESHOLD,
            2 + 2 * NON_CONTIGUOUS_PAGE_THRESHOLD} : p <= TotalPages}

\* extractor.extract failed: ExtractionResult(total_pages=0, pages=[], success=False)
FailedResult == [success |-> FALSE, total_pages |-> 0, content |-> <<>>]

\* the results of a successful extraction of total_pages pages whose text is
\* at most max_content lines of `alphabet` on the pages `on`
Results(alphabet, on, max_content, total_pages) ==
    {[success |-> TRUE, total_pages |-> total_pages,
      content |-> [k \in 1..n |-> [page |-> pg[k], line |-> ln[k]]]] :
        <<n, pg, ln>> \in
            {t \in UNION {{n} \X [1..n -> on] \X [1..n -> alphabet] :
                          n \in 0..max_content} :
                \A k \in 1..(t[1] - 1) : t[2][k] <= t[2][k + 1]}}

\* "SECTION 3: Intro"
LineSection3 ==
    HeadLine("SECTION", DigitsTok("3", 3), TRUE, <<W_intro>>, 16, FALSE)

\* "APPENDIX D"
LineAppendixD == HeadLine("APPENDIX", AlphaTok("D", "d", "D", 1), FALSE, <<>>, 10, TRUE)

\* "PART XX": the ordinal does not resolve
LinePartXX == HeadLine("PART", AlphaTok("XX", "xx", "XX", 2), FALSE, <<>>, 7, TRUE)

\* the lines a page of the table-of-contents specification may carry:
\* headings of the ordinals 1, 2, 3, 4 and of an unresolved ordinal
TocLines == {LineChapter1, LinePart2, LineSection3, LineAppendixD, LinePartXX}

\* the k-th plain word of a title: "t1", "t2", ...
PlainWord(k) == Word("t" \o Str(k), FALSE, "", IF k < 10 THEN 2 ELSE 3)

\* the words put into a title at one position: "includes", "Covers.",
\* "details;:", "includes!" and "provides!."
SpecialWords ==
    {Word("includes", FALSE, "", 8), Word("covers", TRUE, ".", 6),
     Word("details", FALSE, ";:", 7), Word("includes", FALSE, "!", 8),
     Word("provides", FALSE, "!.", 8)}

\* the title of n words whose i-th word is w, the others plain
Title(n, i, w) == [k \in 1..n |-> IF k = i THEN w ELSE PlainWord(k)]

Titles(max_words) ==
    {Title(n, 0, PlainWord(0)) : n \in 0..max_words}
    \cup {Title(t[1], t[2], t[3]) :
            t \in {u \in (1..max_words) \X (1..max_words) \X SpecialWords :
                        u[2] <= u[1]}}

\* the number of characters of a word with its punctuation
WordLen(w) ==
    w.n + (IF w.tail = "" THEN 0
           ELSE IF w.tail \in {".", ",", ";", ":", "!", ")"} THEN 1 ELSE 2)

RECURSIVE WordsLen(_)
\* the number of characters of the words, each after one blank
WordsLen(words) ==
    IF words = <<>> THEN 0 ELSE 1 + WordLen(Head(words)) + WordsLen(Tail(words))

\* "Chapter 4: <title>"
LineChapter4(title) ==
    HeadLine("CHAPTER", DigitsTok("4", 4), TRUE, title, 10 + WordsLen(title), FALSE)

\* the results of the titles specification: one page that carries a
\* "Chapter 4:" heading, alone or after "CHAPTER 1: Intro"
TitleResults(max_words) ==
    LET titled == {LineChapter4(title) : title \in Titles(max_words)}
                  \cup {LineChapter4Reference}
    IN  {[success |-> TRUE, total_pages |-> 1,
          content |-> [k \in 1..Len(ls) |-> [page |-> 1, line |-> ls[k]]]] :
            ls \in {<<l>> : l \in titled} \cup {<<LineChapter1, l>> : l \in titled}}

\* the texts of at most max_len lines of `alphabet`, as text.split('\n')
\* returns them: at least one line
Texts(alphabet, max_len) == UNION {[1..n -> alphabet] : n \in 1..max_len}

\* the lines of the page-marker specification: the markers "PAGE 0",
\* "PAGE 1", "PAGE 2" and two headings
PageTextLines == {PageLine(0), PageLine(1), PageLine(2), LineChapter1, LinePart2}

\* 'a' .. 'z' in the order of ord()
LOWERCASE == <<"a", "b", "c", "d", "e", "f", "g", "h", "i", "j", "k", "l", "m",
               "n", "o", "p", "q", "r", "s", "t", "u", "v", "w", "x", "y", "z">>

\* "APPENDIX <L>" for the k-th letter of the alphabet, in upper or lower case
LineAppendix(k, lower) ==
    HeadLine("APPENDIX",
             AlphaTok(IF lower THEN LOWERCASE[k] ELSE UPPERCASE[k],
                      LOWERCASE[k], UPPERCASE[k], 1),
             FALSE, <<>>, 10, ~lower)

\* the texts of the appendix specification: one appendix heading of either
\* case, or up to max_len headings of upper-case letters
AppendixTexts(max_len) ==
    Texts({LineAppendix(k, TRUE) : k \in 1..Len(LOWERCASE)}, 1)
    \cup Texts({LineAppendix(k, FALSE) : k \in 1..Len(UPPERCASE)}, max_len)

W_introduction == Word("introduction", TRUE, "", 12)

\* "CHAPTER 1: Introduction"
LineChapter1Introduction ==
    HeadLine("CHAPTER", DigitsTok("1", 1), TRUE, <<W_introduction>>, 23, FALSE)

\* "CHAPTER 2"
LineChapter2 == HeadLine("CHAPTER", DigitsTok("2", 2), FALSE, <<>>, 9, TRUE)

\* a paragraph of body text on one line of 160 characters
LineParagraph == TextLine(<<W_skills, W_includes, W_several, W_subsystems>>, 160, FALSE)

\* the body lines of a page: none, one paragraph or one short line
BodyLines(body) ==
    CASE body = "none"      -> <<>>
      [] body = "paragraph" -> <<LineParagraph>>
      [] body = "short"     -> <<LineOverview>>

RECURSIVE ScenarioPages(_, _, _, _)
\* the pages first..last: each a "PAGE <p>" marker, the heading of the page
\* and its body
ScenarioPages(first, last, second, body) ==
    IF first > last THEN <<>>
    ELSE <<PageLine(first)>>
         \o (IF first = 1 THEN <<LineChapter1Introduction>>
             ELSE IF first = second THEN <<LineChapter2>> ELSE <<>>)
         \o BodyLines(body)
         \o ScenarioPages(first + 1, last, second, body)

\* front front-matter lines, then the pages 1..last with "CHAPTER 1:
\* Introduction" on page 1 and "CHAPTER 2" on page `second`
ScenarioText(front, second, last, body) ==
    [k \in 1..front |-> LineOverview] \o ScenarioPages(1, last, second, body)

ScenarioTexts ==
    {ScenarioText(front, second, ScenarioLastPage, body) :
        front \in 0..MaxFrontLines, second \in 2..ScenarioSecondPage,
        body \in {"none", "paragraph", "short"}}

W_glossary == Word("glossary", TRUE, "", 8)
W_and      == Word("and", FALSE, "", 3)
W_amp      == Word("&", FALSE, "", 1)
W_index    == Word("index", TRUE, "", 5)
W_lowindex == Word("index", FALSE, "", 5)
W_to       == Word("to", FALSE, "", 2)

\* "INTRODUCTION"
LineIntroduction == StandaloneLine("INTRODUCTION", <<W_introduction>>, 12, TRUE)

\* "Glossary and Index"
LineGlossaryAndIndex ==
    StandaloneLine("GLOSSARY", <<W_glossary, W_and, W_index>>, 18, FALSE)

\* "GLOSSARY & INDEX"
LineGlossaryAmpIndex ==
    StandaloneLine("GLOSSARY", <<W_glossary, W_amp, W_index>>, 16, TRUE)

\* "index"
LineIndex == StandaloneLine("INDEX", <<W_lowindex>>, 5, FALSE)

\* "Introduction to Skills": a marker word followed by other words
LineIntroductionToSkills ==
    TextLine(<<W_introduction, W_to, W_skills>>, 22, FALSE)

\* the lines a text of the standalone-marker specification may carry
StandaloneTextLines ==
    {LineIntroduction, LineGlossaryAndIndex, LineGlossaryAmpIndex, LineIndex,
     LineIntroductionToSkills, LineChapter1, LineSection3, LineAppendixD,
     LinePartXX}

\* the lines of the title-capture specification: a heading without inline
\* title, an empty line, a page marker, a separator line, a short line and
\* an upper-case line of more than 10 characters
CaptureTextLines ==
    {LinePart2, BlankLine, PageLine(1), SeparatorLine(SEPARATOR_WIDTH),
     LineOverview, LineGlossaryAmpIndex}

\* an upper-case line of 160 characters
LineUpperParagraph ==
    TextLine(<<W_skills, W_includes, W_several, W_subsystems>>, 160, TRUE)

\* "a"
LineOneChar == TextLine(<<Word("a", FALSE, "", 1)>>, 1, FALSE)

\* the lines a run of the look-ahead specification is made of
RunLines ==
    {LineOverview, LineGlossaryAmpIndex, LineParagraph, LineUpperParagraph,
     LineOneChar}

\* "CHAPTER 2", gap empty lines and a run of `run` lines `line`
WindowText(gap, run, line) ==
    <<LineChapter2>> \o [k \in 1..gap |-> BlankLine] \o [k \in 1..run |-> line]

WindowTexts ==
    {WindowText(gap, run, line) :
        gap \in 0..MaxGap, run \in 0..MaxRun, line \in RunLines}

\* "PART 0"
LinePart0 == HeadLine("PART", DigitsTok("0", 0), FALSE, <<>>, 6, TRUE)

\* "CHAPTER 0: Intro"
LineChapter0 ==
    HeadLine("CHAPTER", DigitsTok("0", 0), TRUE, <<W_intro>>, 16, FALSE)

\* the lines of the target-name specification: headings of the ordinals 0,
\* 1, 2, 3 and of an unresolved ordinal, with the title "Intro" or none
NameTextLines ==
    {LinePart0, LinePartXX, LinePart2, LineChapter0, LineChapter1, LineSection3}

\* ------------------------------------------------------------------------
\* State of split_pdf
\* ------------------------------------------------------------------------

VARIABLES
    text,       \* text.split('\n') of a direct detect_sections(text) call
    result,     \* what self.extractor.extract(pdf_path) returns
    dry_run,    \* the dry_run argument of split_pdf
    pc,         \* the position in split_pdf or in the direct call
    sections,   \* the local variable `sections`
    stats,      \* the dictionary split_pdf returns
    files,      \* what split_pdf has written below output_dir
    metadata    \* metadata['sections'] as built before the manifest is written

vars ==
    <<text, strict_standalone, result, dry_run, pc, sections, stats, files,
      metadata>>

\* text_content.split('\n') of the run
lines == BuildLines(result)

NoFiles ==
    [book_dir |-> FALSE, full_content |-> <<>>, front_matter |-> <<>>,
     section_files |-> <<>>, metadata_json |-> FALSE]

\* split_pdf of a DocumentSplitter, whose detector is SectionDetector()
InitWith(results) ==
    /\ text = <<>>
    /\ strict_standalone = FALSE
    /\ result \in results
    /\ dry_run \in BOOLEAN
    /\ pc = "start"
    /\ sections = <<>>
    /\ stats = [sections_found |-> 0, files_created |-> 0, success |-> FALSE,
                error |-> "None"]
    /\ files = NoFiles
    /\ metadata = <<>>

Init ==
    InitWith({FailedResult}
             \cup Results(ContentLines, ContentPages, MaxContent, TotalPages)
             \cup Results(ContentLines, {}, 0, 0))

\* the documents of the table-of-contents specification: two pages
InitToc ==
    InitWith({FailedResult}
             \cup Results(TocLines, {1, 2}, MaxTocContent, 2)
             \cup Results(TocLines, {}, 0, 0))

\* the documents of the titles specification
InitTitles ==
    InitWith({FailedResult}
             \cup TitleResults(MaxTitleLen)
             \cup Results(ContentLines, {1}, 0, 1)
             \cup Results(ContentLines, {}, 0, 0))

\* the lines of the stage-order specification: two headings, a reference
\* sentence that names chapter 4 and a "Chapter 4:" heading whose title is
\* longer than MAX_TITLE_WORDS
StageLines ==
    {LineChapter1, LinePart2, LineChapter4Reference,
     LineChapter4(Title(MaxTitleLen, 0, PlainWord(0)))}

\* the pages of the stage-order specification that carry text: the first
\* and the last, which is more than the threshold later
StageLastPage == 2 + NON_CONTIGUOUS_PAGE_THRESHOLD

\* the documents of the stage-order specification
InitStages ==
    InitWith({FailedResult}
             \cup Results(StageLines, {1, StageLastPage}, MaxStageContent,
                          StageLastPage)
             \cup Results(StageLines, {}, 0, 0))

\* a direct call detector.detect_sections(text) of a detector built with
\* strict_standalone = flag, as find_chapters makes it; split_pdf is not
\* called and writes nothing
InitDirect(texts, flags) ==
    /\ text \in texts
    /\ strict_standalone \in flags
    /\ result = FailedResult
    /\ dry_run = TRUE
    /\ pc = "call"
    /\ sections = <<>>
    /\ stats = [sections_found |-> 0, files_created |-> 0, success |-> FALSE,
                error |-> "None"]
    /\ files = NoFiles
    /\ metadata = <<>>

InitPages == InitDirect(Texts(PageTextLines, MaxPageText), {FALSE})

InitAppendix == InitDirect(AppendixTexts(MaxAppendixLines), {FALSE})

InitScenario == InitDirect(ScenarioTexts, {FALSE})

InitWindow == InitDirect(WindowTexts, {FALSE})

InitNames == InitDirect(Texts(NameTextLines, MaxNameLines), {FALSE})

InitCapture == InitDirect(Texts(CaptureTextLines, MaxCaptureLines), {FALSE})

\* detectors built with SectionDetector() and with
\* SectionDetector(strict_standalone=True)
InitStandalone ==
    InitDirect(Texts(StandaloneTextLines, MaxStandaloneLines), {FALSE, TRUE})

\* ------------------------------------------------------------------------
\* DocumentSplitter.split_pdf
\* ------------------------------------------------------------------------

\* os.makedirs(book_dir, exist_ok=True) in every run
MakeBookDir_Always == [files EXCEPT !.book_dir = TRUE]

\* os.makedirs(book_dir, exist_ok=True) unless dry_run
MakeBookDir == IF dry_run THEN files ELSE [files EXCEPT !.book_dir = TRUE]

\* the except clause: stats['error'] = str(e), stats['success'] = False
Raise(message) ==
    /\ stats' = [stats EXCEPT !.error = message, !.success = FALSE]
    /\ pc' = "done"

\* raise Exception(f"Failed to extract PDF: ...")
ExtractFailed ==
    /\ pc = "start"
    /\ ~result.success
    /\ files' = MakeBookDir
    /\ Raise("Failed to extract PDF")
    /\ UNCHANGED <<text, strict_standalone, result, dry_run, sections, metadata>>

\* raise Exception("Extracted text is empty")
ExtractEmpty ==
    /\ pc = "start"
    /\ result.success
    /\ lines = <<>>
    /\ files' = MakeBookDir
    /\ Raise("Extracted text is empty")
    /\ UNCHANGED <<text, strict_standalone, result, dry_run, sections, metadata>>

\* the scan followed at once by the reference filter
DetectSections_ReferenceFirst ==
    /\ pc = "start"
    /\ result.success
    /\ lines # <<>>
    /\ files' = MakeBookDir
    /\ sections' = _filter_reference_sections(detect_sections(lines))
    /\ pc' = "toc"
    /\ UNCHANGED <<text, strict_standalone, result, dry_run, stats, metadata>>

\* sections = self.detector.detect_sections(text_content)
DetectSections ==
    /\ pc = "start"
    /\ result.success
    /\ lines # <<>>
    /\ files' = MakeBookDir
    /\ sections' = detect_sections(lines)
    /\ pc' = "toc"
    /\ UNCHANGED <<text, strict_standalone, result, dry_run, stats, metadata>>

\* sections = self._filter_toc_pages(sections)
FilterTocPages ==
    /\ pc = "toc"
    /\ sections' = _filter_toc_pages(sections)
    /\ pc' = "reference"
    /\ UNCHANGED <<text, strict_standalone, result, dry_run, stats, files, metadata>>

\* sections = self._filter_reference_sections(sections)
FilterReferenceSections ==
    /\ pc = "reference"
    /\ sections' = _filter_reference_sections(sections)
    /\ pc' = "deduplicate"
    /\ UNCHANGED <<text, strict_standalone, result, dry_run, stats, files, metadata>>

\* sections = self._deduplicate_sections(sections); stats['sections_found']
DeduplicateSections ==
    /\ pc = "deduplicate"
    /\ sections' = _deduplicate_sections(sections)
    /\ stats' = [stats EXCEPT !.sections_found = Len(sections')]
    /\ pc' = "resolved"
    /\ UNCHANGED <<text, strict_standalone, result, dry_run, files, metadata>>

\* 00_full_content.txt: f.write(text_content), every line of the text
FullContentFile(text_lines) ==
    [start_line |-> 0, end_line |-> Len(text_lines) - 1]

\* the run without sections ends as an error
NoSections_Raises ==
    /\ pc = "resolved"
    /\ sections = <<>>
    /\ Raise("No sections found")
    /\ UNCHANGED <<text, strict_standalone, result, dry_run, sections, files, metadata>>

\* `if not sections:` one file with all content and an empty manifest
NoSections ==
    /\ pc = "resolved"
    /\ sections = <<>>
    /\ IF dry_run
       THEN /\ stats' = [stats EXCEPT !.success = TRUE]
            /\ UNCHANGED files
       ELSE /\ stats' = [stats EXCEPT !.files_created = 1, !.success = TRUE]
            /\ files' = [files EXCEPT !.full_content = <<FullContentFile(lines)>>,
                                      !.metadata_json = TRUE]
    /\ pc' = "done"
    /\ UNCHANGED <<text, strict_standalone, result, dry_run, sections, metadata>>

\* some line before first_line holds words
FrontMatterHasText_WordsOnly(text_lines, first_line) ==
    \E i \in 1..first_line : text_lines[i].t \in {"text", "head"}

\* front_matter.strip(): some line before first_line is not empty
FrontMatterHasText(text_lines, first_line) ==
    \E i \in 1..first_line : text_lines[i].t # "blank"

\* the front matter file: lines[:first_section.start_line] under the
\* header "# Pages: 1-{first_section.start_page - 1}"
FrontMatterFile(first_section) ==
    [start_line |-> 0, end_line |-> first_section.start_line - 1,
     start_page |-> 1, end_page |-> first_section.start_page - 1]

\* "Create front matter (everything before first section)"
WriteFrontMatter ==
    /\ pc = "resolved"
    /\ sections # <<>>
    /\ LET first_section == sections[1]
       IN  IF /\ first_section.start_line > 0
              /\ FrontMatterHasText(lines, first_section.start_line)
              /\ ~dry_run
           THEN /\ files' = [files EXCEPT
                                !.front_matter = <<FrontMatterFile(first_section)>>]
                /\ stats' = [stats EXCEPT !.files_created = @ + 1]
           ELSE UNCHANGED <<files, stats>>
    /\ pc' = "sections"
    /\ UNCHANGED <<text, strict_standalone, result, dry_run, sections, metadata>>

\* the file of one section: its name, the "# Pages:" header and the line
\* ranges written, the primary content first
SectionFile(section) ==
    [filename |-> section.filename,
     page_ranges |-> page_ranges(section),
     line_ranges |->
        <<[start_line |-> section.start_line, end_line |-> section.end_line]>>
        \o [k \in 1..Len(section.subsections) |->
                [start_line |-> section.subsections[k].start_line,
                 end_line |-> section.subsections[k].end_line]]]

\* "Create section files": the loop over sections
WriteSections ==
    /\ pc = "sections"
    /\ IF dry_run
       THEN UNCHANGED <<files, stats>>
       ELSE /\ files' = [files EXCEPT !.section_files =
                            [i \in 1..Len(sections) |-> SectionFile(sections[i])]]
            /\ stats' = [stats EXCEPT !.files_created = @ + Len(sections)]
    /\ pc' = "metadata"
    /\ UNCHANGED <<text, strict_standalone, result, dry_run, sections, metadata>>

\* "Create metadata.json" and stats['success'] = True
WriteMetadata ==
    /\ pc = "metadata"
    /\ metadata' = [i \in 1..Len(sections) |-> to_dict(sections[i])]
    /\ files' = IF dry_run THEN files ELSE [files EXCEPT !.metadata_json = TRUE]
    /\ stats' = [stats EXCEPT !.success = TRUE]
    /\ pc' = "done"
    /\ UNCHANGED <<text, strict_standalone, result, dry_run, sections>>

Next ==
    \/ ExtractFailed
    \/ ExtractEmpty
    \/ DetectSections
    \/ FilterTocPages
    \/ FilterReferenceSections
    \/ DeduplicateSections
    \/ NoSections
    \/ WriteFrontMatter
    \/ WriteSections
    \/ WriteMetadata

\* an open() of a non-dry run raises: before 00_front_matter.txt or
\* 00_full_content.txt, before one of the section files, the files of the
\* earlier sections being written, or before metadata.json
WriteFails ==
    /\ pc \in {"resolved", "sections", "metadata"}
    /\ ~dry_run
    /\ IF pc = "sections"
       THEN \E written \in 0..(Len(sections) - 1) :
                /\ files' = [files EXCEPT !.section_files =
                                [i \in 1..written |-> SectionFile(sections[i])]]
                /\ stats' = [stats EXCEPT !.files_created = @ + written,
                                          !.error = "write failed",
                                          !.success = FALSE]
                /\ pc' = "done"
       ELSE /\ Raise("write failed")
            /\ UNCHANGED files
    /\ UNCHANGED <<text, strict_standalone, result, dry_run, sections, metadata>>

\* the next batch skips the book whose folder exists
ResumeBatch_FolderExists ==
    /\ pc = "done"
    /\ IF files.book_dir
       THEN /\ pc' = "skipped"
            /\ UNCHANGED <<dry_run, sections, stats, metadata>>
       ELSE /\ pc' = "start"
            /\ dry_run' \in BOOLEAN
            /\ sections' = <<>>
            /\ stats' = [sections_found |-> 0, files_created |-> 0,
                         success |-> FALSE, error |-> "None"]
            /\ metadata' = <<>>
    /\ UNCHANGED <<text, strict_standalone, result, files>>

\* process_pathfinder_books(resume=True) comes to the book again: it is
\* skipped if metadata.json exists in its folder, else split_pdf is called
\* with the dry_run of this batch
ResumeBatch ==
    /\ pc = "done"
    /\ IF files.metadata_json
       THEN /\ pc' = "skipped"
            /\ UNCHANGED <<dry_run, sections, stats, metadata>>
       ELSE /\ pc' = "start"
            /\ dry_run' \in BOOLEAN
            /\ sections' = <<>>
            /\ stats' = [sections_found |-> 0, files_created |-> 0,
                         success |-> FALSE, error |-> "None"]
            /\ metadata' = <<>>
    /\ UNCHANGED <<text, strict_standalone, result, files>>

\* batches of process_pathfinder_books over one book: the first into an
\* empty folder, the later ones with resume=True
NextBatch ==
    \/ Next
    \/ WriteFails
    \/ ResumeBatch

Spec == Init /\ [][Next]_vars

SpecResume == Init /\ [][NextBatch]_vars

\* sections = detector.detect_sections(text)
CallDetectSections ==
    /\ pc = "call"
    /\ sections' = detect_sections(text)
    /\ pc' = "toc"
    /\ UNCHANGED <<text, strict_standalone, result, dry_run, stats, files, metadata>>

\* a direct call of the detector, followed by the three stages in the order
\* in which split_pdf chains them
NextDirect ==
    \/ CallDetectSections
    \/ FilterTocPages
    \/ FilterReferenceSections
    \/ DeduplicateSections

SpecToc == InitToc /\ [][Next]_vars

SpecPages == InitPages /\ [][NextDirect]_vars

SpecAppendix == InitAppendix /\ [][NextDirect]_vars

SpecScenario == InitScenario /\ [][NextDirect]_vars

SpecStandalone == InitStandalone /\ [][NextDirect]_vars

SpecCapture == InitCapture /\ [][NextDirect]_vars

SpecNames == InitNames /\ [][NextDirect]_vars

SpecWindow == InitWindow /\ [][NextDirect]_vars

SpecTitles == InitTitles /\ [][Next]_vars

SpecStages == InitStages /\ [][Next]_vars

\* ------------------------------------------------------------------------
\* Properties
\* ------------------------------------------------------------------------

\* the pipeline has returned: `sections` is the list the writer is given
PipelineDone ==
    \/ pc \in {"resolved", "sections", "metadata"}
    \/ pc = "done" /\ stats.success

\* the last line index of the document
lastLine == Len(lines) - 1

\* the candidates detect_sections returned for the document of the run
RawCandidates == detect_sections(lines)

\* the list handed to _deduplicate_sections for the document of the run
DeduplicateInput ==
    _filter_reference_sections(_filter_toc_pages(RawCandidates))

\* the occurrences of one targetName in the order the merger examines them
Group(candidates, filename) ==
    SortByKey(by_filename(candidates, filename), "start_page")

Filenames(candidates) == {candidates[i].filename : i \in 1..Len(candidates)}

\* the consecutive startPage gaps of a group
Gaps(group) ==
    {group[i + 1].start_page - group[i].start_page : i \in 1..(Len(group) - 1)}

\* the sections of a list that carry the targetName
Named(list, filename) == {i \in 1..Len(list) : list[i].filename = filename}

\* C1: after the full pipeline the Section list is sorted strictly ascending
\* by startLine and each Section but the last ends on the line before the
\* next Section starts.
C1_OrderedAndAdjacent ==
    PipelineDone =>
        \A i \in 1..(Len(sections) - 1) :
            /\ sections[i].start_line < sections[i + 1].start_line
            /\ sections[i].end_line = sections[i + 1].start_line - 1

\* C1 witness: the pipeline returned two or more Sections after it removed
\* a candidate.
C1_Witness ==
    /\ pc = "resolved"
    /\ Len(sections) >= 2
    /\ Len(sections) < Len(RawCandidates)

\* C2: after the full pipeline the last Section ends on the last line of
\* the document and on the last page the scanner tracked, whichever
\* candidates were removed.
C2_LastSectionEndsDocument ==
    (PipelineDone /\ sections # <<>>) =>
        /\ sections[Len(sections)].end_line = lastLine
        /\ sections[Len(sections)].end_page = LastTrackedPage(lines)

\* the line ranges the writer is given: the front matter, then for every
\* Section its primary range and its continuation ranges
LineRange(first, last) == [start_line |-> first, end_line |-> last]

RECURSIVE SectionRanges(_)
SectionRanges(list) ==
    IF list = <<>> THEN <<>>
    ELSE SectionFile(Head(list)).line_ranges \o SectionRanges(Tail(list))

AllLineRanges(list) ==
    <<LineRange(0, list[1].start_line - 1)>> \o SectionRanges(list)

\* the ranges of a list that hold line x
Holding(ranges, x) ==
    {k \in 1..Len(ranges) : ranges[k].start_line <= x /\ x <= ranges[k].end_line}

\* C3: the front matter, the primary ranges and the continuation ranges of
\* the returned Sections are pairwise disjoint and cover exactly
\* [0, lastLine]: every line lies in exactly one range and no range leaves
\* the document.
C3_Coverage ==
    (PipelineDone /\ sections # <<>>) =>
        LET ranges == AllLineRanges(sections)
        IN  /\ \A x \in 0..lastLine : Cardinality(Holding(ranges, x)) = 1
            /\ \A k \in 1..Len(ranges) : ranges[k].end_line <= lastLine

\* the two page ranges share a page
PagesOverlap(a, b) ==
    /\ a.start_page <= b.end_page
    /\ b.start_page <= a.end_page
    /\ a.start_page <= a.end_page
    /\ b.start_page <= b.end_page

\* C4: the page ranges of the manifest are gap-free and order-preserving:
\* consecutive Sections are adjacent in pages, every range has
\* startPage <= endPage, and no continuation range overlaps the primary
\* range of another Section.
C4_ManifestPageRanges ==
    (pc = "done" /\ stats.success) =>
        /\ \A i \in 1..(Len(metadata) - 1) :
                metadata[i].end_page = metadata[i + 1].start_page - 1
        /\ \A i \in 1..Len(metadata) :
                /\ metadata[i].start_page <= metadata[i].end_page
                /\ \A k \in 1..Len(metadata[i].subsections) :
                        /\ metadata[i].subsections[k].start_page
                                <= metadata[i].subsections[k].end_page
                        /\ \A j \in (1..Len(metadata)) \ {i} :
                                ~PagesOverlap(metadata[i].subsections[k], metadata[j])

\* C5: a group of k >= 2 candidates of one targetName with a consecutive
\* startPage gap above the threshold yields exactly one Section, whose
\* primary span is the first occurrence, and each of the other k - 1
\* occurrences is one of its continuation entries.
C5_NonContiguousMerge ==
    [][pc = "deduplicate" =>
        \A f \in Filenames(sections) :
            LET group == Group(sections, f)
            IN  (Len(group) >= 2 /\ \E gap \in Gaps(group) :
                                        gap > NON_CONTIGUOUS_PAGE_THRESHOLD) =>
                    /\ Cardinality(Named(sections', f)) = 1
                    /\ \A i \in Named(sections', f) :
                        /\ sections'[i].start_line = group[1].start_line
                        /\ Len(sections'[i].subsections) = Len(group) - 1
                        /\ \A j \in 2..Len(group) :
                            \E k \in 1..Len(sections'[i].subsections) :
                                sections'[i].subsections[k].start_line
                                    = group[j].start_line]_vars

\* C6: a group of k >= 2 candidates of one targetName whose consecutive
\* startPage gaps are all at most the threshold yields exactly one Section:
\* an occurrence of the group whose line span, as the merger is given it,
\* is maximal in the group, without continuation entries.
C6_NearDuplicateSuppression ==
    [][pc = "deduplicate" =>
        \A f \in Filenames(sections) :
            LET group == Group(sections, f)
            IN  (Len(group) >= 2 /\ \A gap \in Gaps(group) :
                                        gap <= NON_CONTIGUOUS_PAGE_THRESHOLD) =>
                    /\ Cardinality(Named(sections', f)) = 1
                    /\ \A i \in Named(sections', f) :
                        /\ sections'[i].subsections = <<>>
                        /\ \E j \in 1..Len(group) :
                            /\ group[j].start_line = sections'[i].start_line
                            /\ \A k \in 1..Len(group) :
                                group[k].end_line - group[k].start_line
                                    <= group[j].end_line - group[j].start_line]_vars

\* C6 witness: the deduplicator has handled a group of near duplicates with
\* a gap of exactly the threshold whose occurrences differ in line span, and
\* one Section of that name is left.
C6_Witness ==
    /\ pc = "resolved"
    /\ \E f \in Filenames(DeduplicateInput) :
        LET group == Group(DeduplicateInput, f)
        IN  /\ Len(group) >= 2
            /\ NON_CONTIGUOUS_PAGE_THRESHOLD \in Gaps(group)
            /\ \A gap \in Gaps(group) : gap <= NON_CONTIGUOUS_PAGE_THRESHOLD
            /\ \E j, k \in 1..Len(group) :
                    group[j].end_line - group[j].start_line
                        < group[k].end_line - group[k].start_line
            /\ Cardinality(Named(sections, f)) = 1

\* the emitted Section or continuation has well-formed bounds
WellFormed(s) == s.start_line <= s.end_line /\ s.start_page <= s.end_page

\* C10: split_pdf never returns success = True while an emitted Section or
\* continuation has endLine < startLine or endPage < startPage.
C10_ViolationsSurfaced ==
    (pc = "done" /\ stats.success) =>
        \A i \in 1..Len(sections) :
            /\ WellFormed(sections[i])
            /\ \A k \in 1..Len(sections[i].subsections) :
                    WellFormed(sections[i].subsections[k])

\* the candidates of a list that start on the page
OnPage(list, page) == {i \in 1..Len(list) : list[i].start_page = page}

\* the resolved ordinals of the candidates of a list that start on the page
ResolvedOrdinals(list, page) ==
    {list[i].number : i \in OnPage(list, page)} \ {None}

\* C7: the output of _filter_toc_pages is exactly the input candidates, in
\* their order, whose startPage carries fewer than 3 distinct resolved
\* ordinals; a page with 3 or more loses every candidate, also those of an
\* unresolved ordinal, and a page with headings for 1, 2, 3, 4 yields none.
C7_TocPageFilter ==
    [][pc = "toc" =>
        /\ sections' = SelectSeq(sections, LAMBDA s :
                \A a, b, c \in ResolvedOrdinals(sections, s.start_page) :
                    a = b \/ a = c \/ b = c)
        /\ \A i \in 1..Len(sections) :
                {1, 2, 3, 4} \subseteq ResolvedOrdinals(sections, sections[i].start_page)
                    => OnPage(sections', sections[i].start_page) = {}]_vars

\* C7 witness: the filter has discarded a page of three or more distinct
\* resolved ordinals that also held a candidate of an unresolved ordinal,
\* and has kept the candidates of the other page.
C7_Witness ==
    /\ pc = "reference"
    /\ sections # <<>>
    /\ \E i \in 1..Len(RawCandidates) :
        /\ RawCandidates[i].number = None
        /\ Cardinality(ResolvedOrdinals(RawCandidates,
                                        RawCandidates[i].start_page)) >= 3
        /\ OnPage(sections, RawCandidates[i].start_page) = {}

\* one of the first six words of the title, lower-cased and without its
\* trailing '.', ',', ';', ':', is a narrative verb
VerbInFirstSix(title) ==
    \E k \in 1..Len(title) :
        /\ k <= 6
        /\ title[k].stem \in REFERENCE_INDICATOR_WORDS
        /\ title[k].tail \in {"", ".", ",", ";", ":", ".:", ";:"}

\* the sections of a list that start on the line
StartingAt(list, line_num) == {j \in 1..Len(list) : list[j].start_line = line_num}

\* C8: _filter_reference_sections removes a candidate if and only if one of
\* the first six words of its title is a narrative verb; a verb at position
\* 7 or later does not remove it, and the line "Chapter 4: Skills includes
\* several subsystems" yields no Section.
C8_ReferenceSuppression ==
    [][pc = "reference" =>
        /\ Len(sections') = Cardinality({i \in 1..Len(sections) :
                                            ~VerbInFirstSix(sections[i].title)})
        /\ \A i \in 1..Len(sections) :
            /\ StartingAt(sections', sections[i].start_line) = {}
                    <=> VerbInFirstSix(sections[i].title)
            /\ lines[sections[i].start_line + 1] = LineChapter4Reference
                    => StartingAt(sections', sections[i].start_line) = {}]_vars

\* C8 witness: the filter has kept a candidate whose title has a narrative
\* verb at word position 7 and no earlier one.
C8_Witness ==
    /\ pc = "deduplicate"
    /\ \E i \in 1..Len(sections) :
        /\ Len(lines[sections[i].start_line + 1].words) >= 7
        /\ InReferenceWords(LowerWord(lines[sections[i].start_line + 1].words[7]))
        /\ ~VerbInFirstSix(sections[i].title)

\* C9: for every candidate the reference filter keeps, a title of at most 8
\* words and its targetName are unchanged, a longer title becomes its first
\* 8 words with the targetName generated from kind, ordinal and the cut
\* title, and a second application of the filter to its output changes
\* nothing and removes nothing.
C9_TruncationIdempotent ==
    [][pc = "reference" =>
        /\ \A j \in 1..Len(sections') :
            \E i \in 1..Len(sections) :
                /\ sections[i].start_line = sections'[j].start_line
                /\ IF Len(sections[i].title) <= 8
                   THEN /\ sections'[j].title = sections[i].title
                        /\ sections'[j].filename = sections[i].filename
                   ELSE /\ sections'[j].title = SubSeq(sections[i].title, 1, 8)
                        /\ sections'[j].filename =
                                _generate_filename(sections[i].section_type,
                                                   sections[i].number,
                                                   SubSeq(sections[i].title, 1, 8))
        /\ _filter_reference_sections(sections') = sections']_vars

\* C9 witness: the filter has cut a title of more than 8 words to 8 words
\* and the candidate's targetName is no longer the one it was detected with.
C9_Witness ==
    /\ pc = "deduplicate"
    /\ \E j \in 1..Len(sections) :
        /\ Len(sections[j].title) = 8
        /\ Len(lines[sections[j].start_line + 1].words) > 8
        /\ \E i \in 1..Len(RawCandidates) :
            /\ RawCandidates[i].start_line = sections[j].start_line
            /\ RawCandidates[i].filename # sections[j].filename

\* the page-marker lines of the text before line_num
MarkersBefore(line_num) ==
    {j \in 0..(line_num - 1) : text[j + 1].t = "page"}

\* C11: every candidate of detect_sections starts on the page whose number
\* the most recent "PAGE <digits>" line before it carries, whatever the
\* number (0 included), and on page 1 when no such line precedes it; a
\* page-marker line never produces a candidate.
C11_PageTracking ==
    [][pc = "call" =>
        \A i \in 1..Len(sections') :
            LET markers == MarkersBefore(sections'[i].start_line)
            IN  /\ text[sections'[i].start_line + 1].t # "page"
                /\ markers = {} => sections'[i].start_page = 1
                /\ \A j \in markers :
                    (\A k \in markers : k <= j)
                        => sections'[i].start_page = text[j + 1].n]_vars

\* the line of the text is "APPENDIX <L>" for a single letter L
IsLetterAppendix(line) ==
    /\ line.t = "head"
    /\ line.kw = "APPENDIX"
    /\ line.tok.alpha
    /\ line.tok.len = 1

\* the 1-based position of the letter in the alphabet
AlphabetPosition(tok) ==
    CHOOSE k \in 1..Len(UPPERCASE) : tok.s \in {UPPERCASE[k], LOWERCASE[k]}

\* C12: the candidate of every heading "APPENDIX <L>", L a single letter of
\* either case, has the 1-based alphabet position of L as its ordinal
\* (I = 9, V = 22, X = 24), so appendices of different letters never share
\* an ordinal.
C12_LetterOrdinals ==
    [][pc = "call" =>
        \A i \in 1..Len(sections') :
            LET line == text[sections'[i].start_line + 1]
            IN  IsLetterAppendix(line) =>
                    /\ sections'[i].number = AlphabetPosition(line.tok)
                    /\ \A j \in 1..Len(sections') :
                        LET other == text[sections'[j].start_line + 1]
                        IN  (IsLetterAppendix(other)
                             /\ other.tok.upper # line.tok.upper)
                                => sections'[j].number # sections'[i].number]_vars

\* the line is a heading whose ordinal token is no digits, no number word,
\* no roman numeral I..X and no single letter
Unresolvable(line) ==
    /\ line.t = "head"
    /\ ~line.tok.digits
    /\ line.tok.lower \notin DOMAIN WORD_TO_NUM
    /\ line.tok.upper \notin DOMAIN ROMAN_TO_NUM
    /\ line.tok.len # 1

\* the heading lines of a text
HeadingLines(text_lines) ==
    {n \in 0..(Len(text_lines) - 1) : text_lines[n + 1].t = "head"}

\* C13: a heading line whose ordinal token resolves in none of the tables
\* ("PART XX") produces exactly one candidate, with ordinal none, and the
\* scan goes on: every heading line of the text has its candidate.
C13_UnresolvedOrdinalKept ==
    [][(pc = "start" /\ result.success /\ lines # <<>>) =>
        /\ \A n \in HeadingLines(lines) :
            /\ Cardinality(StartingAt(sections', n)) = 1
            /\ Unresolvable(lines[n + 1]) =>
                    \A i \in StartingAt(sections', n) : sections'[i].number = None
        /\ Len(sections') = Cardinality(HeadingLines(lines))]_vars

\* C13 witness: the scan has returned a candidate of an unresolved ordinal
\* followed by a candidate of a resolved one.
C13_Witness ==
    /\ pc = "toc"
    /\ \E i, j \in 1..Len(sections) :
        /\ i < j
        /\ Unresolvable(lines[sections[i].start_line + 1])
        /\ sections[i].number = None
        /\ sections[j].number # None

\* C14: when the scan and the three stages leave no Section, split_pdf
\* returns success = True with sections_found = 0 and no error, and unless
\* dry_run it has written one content file with the whole text and a
\* manifest with an empty section list, and nothing else.
C14_ZeroSectionsSucceed ==
    (pc = "done" /\ result.success /\ lines # <<>> /\ sections = <<>>) =>
        /\ stats.success
        /\ stats.sections_found = 0
        /\ stats.error = "None"
        /\ ~dry_run =>
            /\ files.full_content = <<[start_line |-> 0, end_line |-> lastLine]>>
            /\ files.metadata_json
            /\ metadata = <<>>
            /\ files.front_matter = <<>>
            /\ files.section_files = <<>>
            /\ stats.files_created = 1

\* C14 witness: a run that is no dry run has ended without Sections after
\* the stages removed every candidate the scan had found.
C14_Witness ==
    /\ pc = "done"
    /\ ~dry_run
    /\ stats.success
    /\ sections = <<>>
    /\ RawCandidates # <<>>

\* the two Sections of the scenario: chapter 1 "Introduction" on the pages
\* 1..second-1 and chapter 2 without title on the pages second..last
ScenarioSections(list, second, last) ==
    /\ Len(list) = 2
    /\ list[1].number = 1
    /\ list[1].title = <<W_introduction>>
    /\ list[1].start_page = 1
    /\ list[1].end_page = second - 1
    /\ list[2].number = 2
    /\ list[2].title = <<>>
    /\ list[2].start_page = second
    /\ list[2].end_page = last

\* the number of lines of the front-matter span of a Section list
FrontMatterLines(list) ==
    FrontMatterFile(list[1]).end_line - FrontMatterFile(list[1]).start_line + 1

\* the texts of the scenario whose "CHAPTER 2" is followed by no title text
IsScenario(front, second, last) ==
    \E body \in {"none", "paragraph"} :
        text = ScenarioText(front, second, last, body)

\* C15 as stated: for 3 front-matter lines, "PAGE 1", "CHAPTER 1:
\* Introduction", body through page 9, "PAGE 10", "CHAPTER 2" without title
\* text, body through page 20, the pipeline returns the Sections {1,
\* "Introduction", pages 1-9} and {2, "", pages 10-20} and a front-matter
\* span of exactly 3 lines.
C15_ScenarioAsStated ==
    (pc = "resolved"
     /\ IsScenario(MaxFrontLines, ScenarioSecondPage, ScenarioLastPage)) =>
        /\ ScenarioSections(sections, ScenarioSecondPage, ScenarioLastPage)
        /\ FrontMatterLines(sections) = MaxFrontLines

\* C15 amended: for the same input the pipeline returns the two Sections,
\* and the front-matter span is the lines [0, firstSection.startLine - 1]:
\* the front-matter lines and the "PAGE 1" marker line, one line more than
\* the front-matter lines; this for every number of front-matter lines and
\* every page of "CHAPTER 2".
C15_ScenarioWithMarkerLine ==
    pc = "resolved" =>
        \A front \in 0..MaxFrontLines, second \in 2..ScenarioSecondPage :
            IsScenario(front, second, ScenarioLastPage) =>
                /\ ScenarioSections(sections, second, ScenarioLastPage)
                /\ FrontMatterFile(sections[1]).start_line = 0
                /\ FrontMatterFile(sections[1]).end_line = front
                /\ text[front + 1].t = "page"
                /\ FrontMatterLines(sections) = front + 1

\* C15 witness: the pipeline has returned for the scenario of 3
\* front-matter lines, "CHAPTER 2" on page 10 and 20 pages of paragraphs.
C15_Witness ==
    /\ pc = "resolved"
    /\ text = ScenarioText(MaxFrontLines, ScenarioSecondPage, ScenarioLastPage,
                           "paragraph")
    /\ Len(sections) = 2

\* the lines [0, first_section.start_line - 1] hold no words: they are
\* blank lines, separator lines and page markers
OnlyDelimitersBefore(first_section) ==
    \A i \in 1..first_section.start_line : lines[i].t \in {"blank", "sep", "page"}

\* C16: whenever split_pdf (not a dry run) reaches the front matter with a
\* first Section whose start_line is greater than 0, the front-matter file
\* holds exactly the lines [0, first.start_line - 1], also when they are only
\* blank lines and delimiters, under the page range 1..(first.start_page - 1).
C16_FrontMatterExposed ==
    [][(pc = "resolved" /\ pc' = "sections" /\ ~dry_run
        /\ sections[1].start_line > 0) =>
           /\ files'.front_matter =
                  <<[start_line |-> 0,
                     end_line   |-> sections[1].start_line - 1,
                     start_page |-> 1,
                     end_page   |-> sections[1].start_page - 1]>>
           /\ stats'.files_created = stats.files_created + 1]_vars

\* C16 witness: a front-matter file was written for lines that are only
\* blank lines and delimiters, before a first Section on page 1.
C16_Witness ==
    /\ pc = "sections"
    /\ ~dry_run
    /\ sections[1].start_line > 0
    /\ OnlyDelimitersBefore(sections[1])
    /\ sections[1].start_page = 1
    /\ files.front_matter = <<FrontMatterFile(sections[1])>>

\* every order in which the elements of a set can be visited
Orders(set) ==
    {order \in [1..Cardinality(set) -> set] :
        \A i, j \in 1..Cardinality(set) : order[i] = order[j] => i = j}

\* the keys of sections_per_page
PageKeys(list) == {list[i].start_page : i \in 1..Len(list)}

\* the keys of by_filename
FilenameKeys(list) == {list[i].filename : i \in 1..Len(list)}

\* C17: the Section list that the TOC filter and the deduplication return
\* (order, kind, ordinal, title, targetName, line and page bounds and
\* continuations) is the same for every order in which the per-page groups
\* and the per-targetName groups are visited.
C17_GroupOrderIndependent ==
    [][/\ (pc = "toc" /\ pc' = "reference") =>
            \A pages \in Orders(PageKeys(sections)) :
                sections' = FilterTocInOrder(sections, pages)
       /\ (pc = "deduplicate" /\ pc' = "resolved") =>
            \A keys \in Orders(FilenameKeys(sections)) :
                sections' = DeduplicateInOrder(sections, keys)]_vars

\* C17 witness: the pipeline has returned two Sections of different
\* targetName for a text on two pages in which one group had two
\* occurrences.
C17_Witness ==
    /\ pc = "resolved"
    /\ Cardinality(FilenameKeys(sections)) = 2
    /\ Cardinality(PageKeys(detect_sections(text))) = 2
    /\ Len(detect_sections(text)) > Len(sections)

\* the line is nothing but INTRODUCTION, GLOSSARY (with or without
\* "AND INDEX" / "& INDEX") or INDEX
IsStandaloneMarker(line) ==
    \E i \in 1..Len(STANDALONE_PATTERNS) : StandalonePatternMatches(i, line)

\* the candidates that detect_sections returned for the line of index n
CandidatesAt(n) == {k \in 1..Len(sections) : sections[k].start_line = n}

\* C18: with the detector of default settings no standalone marker line
\* produces a candidate and every candidate is a chapter, part, section or
\* appendix; with strict_standalone on, every standalone marker line
\* produces exactly one candidate, of the kind of the marker and with
\* ordinal none.
C18_StandaloneOffByDefault ==
    pc = "toc" =>
        /\ ~strict_standalone =>
            /\ \A n \in 0..(Len(text) - 1) :
                    IsStandaloneMarker(text[n + 1]) => CandidatesAt(n) = {}
            /\ \A k \in 1..Len(sections) :
                    sections[k].section_type \in
                        {"chapter", "part", "section", "appendix"}
        /\ strict_standalone =>
            \A n \in 0..(Len(text) - 1) :
                IsStandaloneMarker(text[n + 1]) =>
                    /\ Cardinality(CandidatesAt(n)) = 1
                    /\ \A k \in CandidatesAt(n) :
                        /\ sections[k].number = None
                        /\ sections[k].section_type \in
                               {"introduction", "glossary", "index"}

\* C18 witness: a detector with the flag on has returned candidates for a
\* text with a standalone marker line and a chapter heading.
C18_Witness ==
    /\ pc = "toc"
    /\ strict_standalone
    /\ \E n \in 1..Len(text) : IsStandaloneMarker(text[n])
    /\ \E k \in 1..Len(sections) : sections[k].section_type = "chapter"
    /\ \E k \in 1..Len(sections) : sections[k].section_type = "glossary"

\* stats['sections_found'] as the document of the run determines it: the
\* length of the pipeline's list once the pipeline has run, 0 before and
\* on the paths that raise
SectionsFoundFor ==
    IF PipelineDone THEN Len(_deduplicate_sections(DeduplicateInput)) ELSE 0

\* C19: in every state of a run of split_pdf with dry_run = True (sections
\* found, none found, front matter present, extraction failed) no directory
\* and no front-matter, section, full-content or metadata file exists and
\* files_created is 0; sections_found is determined by the document alone,
\* so it is the same in the dry run and in the run that writes.
C19_DryRunNoFileEffects ==
    /\ dry_run =>
        /\ files.book_dir = FALSE
        /\ files.full_content = <<>>
        /\ files.front_matter = <<>>
        /\ files.section_files = <<>>
        /\ files.metadata_json = FALSE
        /\ stats.files_created = 0
    /\ stats.sections_found = SectionsFoundFor
    /\ result = FailedResult => stats.sections_found = 0

\* C19 witness: a dry run has ended with success for a document with
\* sections and front matter.
C19_Witness ==
    /\ pc = "done"
    /\ dry_run
    /\ stats.success
    /\ stats.sections_found > 0
    /\ sections[1].start_line > 0
    /\ FrontMatterHasText(lines, sections[1].start_line)

\* the occurrences of a group that have the maximal line span
MaximalSpan(occurrences) ==
    {i \in 1..Len(occurrences) :
        \A j \in 1..Len(occurrences) :
            line_span(occurrences[j]) <= line_span(occurrences[i])}

\* the earliest start_line among the occurrences of maximal line span
EarliestMaximal(occurrences) ==
    CHOOSE n \in {occurrences[i].start_line : i \in MaximalSpan(occurrences)} :
        \A i \in MaximalSpan(occurrences) : n <= occurrences[i].start_line

\* C20: when two or more occurrences of a near-duplicate group share the
\* maximal line span, the occurrence that the deduplication keeps is the one
\* of the earliest start_line, also for texts whose page markers do not
\* increase.
C20_TieKeepsEarliestStartLine ==
    [][(pc = "deduplicate" /\ pc' = "resolved") =>
        \A filename \in FilenameKeys(sections) :
            LET occurrences == by_filename(sections, filename)
            IN  (/\ Len(occurrences) >= 2
                 /\ ~has_non_contiguous(Group(sections, filename))
                 /\ Cardinality(MaximalSpan(occurrences)) >= 2) =>
                    \A k \in 1..Len(sections') :
                        sections'[k].filename = filename =>
                            sections'[k].start_line =
                                EarliestMaximal(occurrences)]_vars

\* the position of a stage in split_pdf
StageRank(stage) ==
    CASE stage = "start"       -> 0
      [] stage = "toc"         -> 1
      [] stage = "reference"   -> 2
      [] stage = "deduplicate" -> 3
      [] stage = "resolved"    -> 4
      [] stage = "sections"    -> 5
      [] stage = "metadata"    -> 6
      [] stage = "done"        -> 7

\* the targetName of every Section of the list is the one generated from
\* the title the Section has now
NamesRegenerated(list) ==
    \A k \in 1..Len(list) :
        list[k].filename = _generate_filename(list[k].section_type,
                                              list[k].number, list[k].title)

\* C21: every step of split_pdf moves to the next stage or ends the run, so
\* no stage runs twice or after a later one; the scan leaves the raw
\* candidates, the TOC filter counts the ordinals of the raw candidates, the
\* reference filter works on the TOC filter's list and leaves targetNames
\* regenerated from the truncated titles, the deduplication with its
\* back-fill works on that list, and the writer's stages leave the list alone.
C21_StageOrder ==
    [][/\ \/ StageRank(pc') = StageRank(pc) + 1
          \/ pc' = "done"
       /\ (pc = "start" /\ pc' = "toc") => sections' = RawCandidates
       /\ (pc = "toc" /\ pc' = "reference") =>
            /\ sections = RawCandidates
            /\ sections' =
                 SelectSeq(RawCandidates,
                           LAMBDA s : s.start_page \notin toc_pages(RawCandidates))
       /\ (pc = "reference" /\ pc' = "deduplicate") =>
            /\ sections' = _filter_reference_sections(sections)
            /\ NamesRegenerated(sections')
       /\ (pc = "deduplicate" /\ pc' = "resolved") =>
            /\ NamesRegenerated(sections)
            /\ sections' = _deduplicate_sections(sections)
       /\ StageRank(pc) >= 4 => sections' = sections]_vars

\* C21 witness: the TOC filter has removed a page on which one of the three
\* counted ordinals belongs to a reference sentence, which the reference
\* filter alone would have dropped and left two ordinals.
C21_Witness ==
    /\ pc = "reference"
    /\ sections = <<>>
    /\ Len(RawCandidates) = 3
    /\ Len(_filter_reference_sections(RawCandidates)) = 2
    /\ _filter_toc_pages(_filter_reference_sections(RawCandidates)) # <<>>

\* the candidate of the list `before` that starts at the line where the
\* Section s starts
Origin(before, s) ==
    before[CHOOSE k \in 1..Len(before) : before[k].start_line = s.start_line]

\* s is a candidate of `before` with the same kind, ordinal, start_line and
\* start_page
SameIdentity(before, s) ==
    /\ \E k \in 1..Len(before) : before[k].start_line = s.start_line
    /\ s.section_type = Origin(before, s).section_type
    /\ s.number = Origin(before, s).number
    /\ s.start_page = Origin(before, s).start_page

\* title and targetName of s are those of its candidate
SameName(before, s) ==
    /\ s.title = Origin(before, s).title
    /\ s.filename = Origin(before, s).filename

\* the title of the candidate had more than MAX_TITLE_WORDS words and s
\* has its first MAX_TITLE_WORDS words and the targetName generated from them
NameTruncated(before, s) ==
    /\ Len(Origin(before, s).title) > MAX_TITLE_WORDS
    /\ s.title = SubSeq(Origin(before, s).title, 1, MAX_TITLE_WORDS)
    /\ s.filename = _generate_filename(s.section_type, s.number, s.title)

\* the continuation entries of the candidate are the first entries of s
ContinuationsAppended(before, s) ==
    /\ Len(Origin(before, s).subsections) <= Len(s.subsections)
    /\ SubSeq(s.subsections, 1, Len(Origin(before, s).subsections))
            = Origin(before, s).subsections

\* C22: every Section that survives the TOC filter, the reference filter or
\* the deduplication is a candidate of the stage's input with the same kind,
\* ordinal, start_line and start_page; its title and targetName are those
\* of the candidate, except that the reference filter truncates a title of
\* more than 8 words and regenerates the targetName; the filters write
\* nothing else, and the deduplication writes only end_line, end_page and
\* continuation entries appended to a merged primary.
C22_StageFrame ==
    [][/\ (pc = "toc" /\ pc' = "reference") =>
            \A k \in 1..Len(sections') : sections'[k] = Origin(sections, sections'[k])
       /\ (pc = "reference" /\ pc' = "deduplicate") =>
            \A k \in 1..Len(sections') :
                /\ SameIdentity(sections, sections'[k])
                /\ \/ /\ Len(Origin(sections, sections'[k]).title) <= MAX_TITLE_WORDS
                      /\ SameName(sections, sections'[k])
                   \/ NameTruncated(sections, sections'[k])
                /\ sections'[k].end_line = Origin(sections, sections'[k]).end_line
                /\ sections'[k].end_page = Origin(sections, sections'[k]).end_page
                /\ sections'[k].subsections
                        = Origin(sections, sections'[k]).subsections
       /\ (pc = "deduplicate" /\ pc' = "resolved") =>
            \A k \in 1..Len(sections') :
                /\ SameIdentity(sections, sections'[k])
                /\ SameName(sections, sections'[k])
                /\ ContinuationsAppended(sections, sections'[k])]_vars

\* C22 witness: the pipeline has returned a Section whose title was
\* truncated and to which a continuation entry was appended.
C22_Witness ==
    /\ pc = "resolved"
    /\ \E k \in 1..Len(sections) :
        /\ sections[k].subsections # <<>>
        /\ Len(sections[k].title) = MAX_TITLE_WORDS
        /\ Len(Origin(RawCandidates, sections[k]).title) > MAX_TITLE_WORDS

\* an empty line, a page marker or a separator line
IsSkippedLine(line) ==
    line.t = "blank" \/ _is_page_marker(line) \/ StartsWithEquals(line)

\* a line that ends the capture of a title that has started
EndsCapture(line) == IsSkippedLine(line) \/ MatchesAnyChapterPattern(line)

\* the candidates whose heading line carries no inline title
UntitledHeadings == {k \in 1..Len(sections) : ~text[sections[k].start_line + 1].colon}

\* the indices of the lines captured for the heading of the candidate k
Captured(k) == TitleLineIndices(text, sections[k].start_line)

\* C23: for a heading without inline title, a title line that follows only
\* empty lines, page markers and separator lines is captured as the first
\* line of the title; the captured lines are consecutive lines of which none
\* is empty, a page marker, a separator or a heading, so the first such line
\* after a captured line ends the capture; the title is the words of the
\* captured lines in order, and is empty when no line was captured.
C23_TitleCapture ==
    pc = "toc" =>
        \A k \in UntitledHeadings :
            /\ \A j \in (sections[k].start_line + 1)..(Len(text) - 1) :
                (/\ \A i \in (sections[k].start_line + 1)..(j - 1) :
                        IsSkippedLine(text[i + 1])
                 /\ ~EndsCapture(text[j + 1])
                 /\ text[j + 1].len > 1
                 /\ text[j + 1].len < 150
                 /\ j <= sections[k].start_line + look_ahead_lines) =>
                    /\ Captured(k) # <<>>
                    /\ Captured(k)[1] = j
            /\ \A n \in 1..Len(Captured(k)) :
                /\ Captured(k)[n] = Captured(k)[1] + n - 1
                /\ Captured(k)[n] > sections[k].start_line
                /\ ~EndsCapture(text[Captured(k)[n] + 1])
            /\ sections[k].title = JoinLines(text, Captured(k))
            /\ Captured(k) = <<>> => sections[k].title = <<>>

\* C23 witness: a heading is followed by a skipped line, two captured lines
\* and a line that ends the capture.
C23_Witness ==
    /\ pc = "toc"
    /\ \E k \in UntitledHeadings :
        /\ sections[k].start_line + 2 <= Len(text)
        /\ IsSkippedLine(text[sections[k].start_line + 2])
        /\ Len(Captured(k)) = 2
        /\ Captured(k)[2] + 1 < Len(text)
        /\ EndsCapture(text[Captured(k)[2] + 2])
        /\ Len(sections[k].title) = 2

\* C24: with strict_standalone on, no line that matches a standalone
\* pattern is among the lines captured for the title of a preceding heading
\* without inline title: such a line ends the capture, as a line that matches
\* one of CHAPTER_PATTERNS does.
C24_StandaloneEndsCapture ==
    (pc = "toc" /\ strict_standalone) =>
        \A k \in UntitledHeadings :
            \A n \in 1..Len(Captured(k)) :
                ~IsStandaloneMarker(text[Captured(k)[n] + 1])

\* the text up to the last line of the look-ahead window of the candidate k
WindowOf(k) ==
    SubSeq(text, 1,
           IF Len(text) < sections[k].start_line + 1 + look_ahead_lines
           THEN Len(text) ELSE sections[k].start_line + 1 + look_ahead_lines)

\* C25: every line captured for the title of a heading at line h has an
\* index in [h + 1, h + 15] and a length between 2 and 149; at most 15 lines
\* are captured, and the title is the one extracted from the text cut behind
\* line h + 15, whatever follows, also for unbroken runs of upper-case lines.
C25_BoundedLookAhead ==
    pc = "toc" =>
        \A k \in UntitledHeadings :
            /\ \A n \in 1..Len(Captured(k)) :
                /\ Captured(k)[n] >= sections[k].start_line + 1
                /\ Captured(k)[n] <= sections[k].start_line + look_ahead_lines
                /\ text[Captured(k)[n] + 1].len >= 2
                /\ text[Captured(k)[n] + 1].len <= 149
            /\ Len(Captured(k)) <= look_ahead_lines
            /\ TitleLineIndices(WindowOf(k), sections[k].start_line) = Captured(k)
            /\ sections[k].title = JoinLines(WindowOf(k), Captured(k))

\* C25 witness: the whole window of a heading was captured from a run of
\* upper-case lines that goes on behind the window.
C25_Witness ==
    /\ pc = "toc"
    /\ Len(sections) = 1
    /\ Len(Captured(1)) = look_ahead_lines
    /\ Len(text) > sections[1].start_line + 1 + look_ahead_lines
    /\ text[Len(text)].upper

\* C26: the batch with resume=True skips the book if and only if
\* metadata.json exists in its folder; metadata.json is written only by the
\* last write of a run, after the full-content file or after every section
\* file, and that run ends with success; so when a run has ended,
\* metadata.json exists exactly if the run was no dry run and succeeded
\* (also without sections), and the book of a dry run or of a run that
\* failed is processed again.
C26_ResumeAfterMetadata ==
    [][/\ (pc = "done" /\ pc' # "done") =>
            /\ pc' = "skipped" <=> files.metadata_json
            /\ pc' = "start" <=> ~files.metadata_json
            /\ files.metadata_json <=> (stats.success /\ ~dry_run)
            /\ files' = files
       /\ (~files.metadata_json /\ files'.metadata_json) =>
            /\ pc' = "done"
            /\ stats'.success
            /\ ~dry_run
            /\ files'.section_files = files.section_files
            /\ files'.front_matter = files.front_matter
            /\ IF sections = <<>>
               THEN files'.full_content # <<>>
               ELSE files.section_files =
                        [i \in 1..Len(sections) |-> SectionFile(sections[i])]
       /\ pc = "skipped" => UNCHANGED vars]_vars

\* C26 witness: the batch has skipped the book, whose folder holds
\* metadata.json behind the front matter and at least two section files.
C26_Witness ==
    /\ pc = "skipped"
    /\ files.metadata_json
    /\ Len(files.section_files) >= 2
    /\ stats.files_created > Len(files.section_files)

\* C27: the Sections that the pipeline returns have pairwise different
\* targetNames, so the section files of a run are as many as the Sections
\* and have pairwise different names; every continuation entry has the
\* empty filename and no file of its own.
C27_DistinctTargetNames ==
    PipelineDone =>
        /\ \A i, j \in 1..Len(sections) :
                sections[i].filename = sections[j].filename => i = j
        /\ \A i \in 1..Len(sections) :
                /\ sections[i].filename # <<>>
                /\ \A c \in 1..Len(sections[i].subsections) :
                        sections[i].subsections[c].filename = <<>>
        /\ files.section_files # <<>> =>
                /\ Len(files.section_files) = Len(sections)
                /\ \A i, j \in 1..Len(files.section_files) :
                        files.section_files[i].filename
                            = files.section_files[j].filename => i = j

\* C27 witness: a run has written the files of two Sections, one of them
\* merged with a continuation entry, from three candidates.
C27_Witness ==
    /\ pc = "done"
    /\ Len(files.section_files) = 2
    /\ Len(RawCandidates) = 3
    /\ \E i \in 1..Len(sections) : sections[i].subsections # <<>>

\* C28: two candidates of the scan that have the same title and differ in
\* kind or in ordinal, the ordinal 0 and the unresolved ordinal counted as
\* different, have different targetNames.
C28_TargetNameSeparates ==
    pc = "toc" =>
        \A i, j \in 1..Len(sections) :
            (/\ sections[i].title = sections[j].title
             /\ \/ sections[i].section_type # sections[j].section_type
                \/ sections[i].number # sections[j].number) =>
                    sections[i].filename # sections[j].filename

\* the line bounds lie in the document and are not inverted
LineBoundsWellFormed(s) ==
    /\ 0 <= s.start_line
    /\ s.start_line <= s.end_line
    /\ s.end_line <= lastLine

\* C29: every Section that the pipeline returns and every continuation
\* entry has 0 <= start_line <= end_line <= lastLine; no end_line is the
\* placeholder -1.
C29_LineBoundsWellFormed ==
    PipelineDone =>
        \A i \in 1..Len(sections) :
            /\ LineBoundsWellFormed(sections[i])
            /\ \A c \in 1..Len(sections[i].subsections) :
                    LineBoundsWellFormed(sections[i].subsections[c])

\* C29 witness: the pipeline has returned a merged Section with a
\* continuation entry after it removed the last candidate of the scan.
C29_Witness ==
    /\ pc = "resolved"
    /\ \E i \in 1..Len(sections) : sections[i].subsections # <<>>
    /\ \A i \in 1..Len(sections) :
            sections[i].start_line
                < RawCandidates[Len(RawCandidates)].start_line

\* the returned Sections that start behind the line
StartingBehind(line) == {j \in 1..Len(sections) : sections[j].start_line > line}

\* the first of the returned Sections that start behind the line
NextSurvivor(line) ==
    sections[CHOOSE j \in StartingBehind(line) :
                \A k \in StartingBehind(line) :
                    sections[j].start_line <= sections[k].start_line]

\* C30: every continuation entry of a returned Section starts at the
\* start_line and start_page of a candidate of the scan and ends just before
\* the next returned Section in document order, or with the document when
\* no returned Section starts behind it.
C30_ContinuationBounds ==
    PipelineDone =>
        \A i \in 1..Len(sections) :
            \A c \in 1..Len(sections[i].subsections) :
                LET sub == sections[i].subsections[c]
                IN  /\ \E k \in 1..Len(RawCandidates) :
                            /\ RawCandidates[k].start_line = sub.start_line
                            /\ RawCandidates[k].start_page = sub.start_page
                    /\ IF StartingBehind(sub.start_line) = {}
                       THEN /\ sub.end_line = lastLine
                            /\ sub.end_page = LastTrackedPage(lines)
                       ELSE /\ sub.end_line =
                                   NextSurvivor(sub.start_line).start_line - 1
                            /\ sub.end_page =
                                   NextSurvivor(sub.start_line).start_page - 1

====
